---- MODULE Spec2Model ----
(***************************************************************************)
(* State-machine model of FreeRTOS_Routing.c (FreeRTOS+TCP multi V2.3.1):  *)
(* the registry of network interfaces and end-points, the end-point        *)
(* configuration functions and the address look-ups.                       *)
(*                                                                         *)
(* Pointers are small naturals, NULL is 0.  A uint32_t is a tuple of four  *)
(* bytes, most significant byte first, so every bitwise operation keeps    *)
(* its full 32-bit width.  The build modelled is the little-endian one     *)
(* (ipconfigBYTE_ORDER == pdFREERTOS_LITTLE_ENDIAN), with ipconfigUSE_IPv6 *)
(* and ipconfigUSE_LLMNR enabled and ipconfigCOMPATIBLE_WITH_SINGLE == 0.  *)
(***************************************************************************)
EXTENDS Naturals, Integers, Sequences, FiniteSets, TLC

(***************************************************************************)
(* Bounds of the model.                                                    *)
(***************************************************************************)
NumInterfaces == 2

NumEndPoints == 2

MaxOps == 4

NumSockets == 2

\* Tasks that look end-points up at the same time.
NumReaders == 2

NULL == 0

\* Outcomes of a call that does not return: a failed configASSERT, and a
\* fault on the access through a NULL pointer.
ASSERT_FAILED == 0 - 1

FAULT == 0 - 2

Interfaces == 1 .. NumInterfaces

EndPoints == 1 .. NumEndPoints

Sockets == 1 .. NumSockets

Readers == 1 .. NumReaders

(***************************************************************************)
(* 32-bit arithmetic on byte tuples.                                       *)
(***************************************************************************)
RECURSIVE BitAnd(_, _)
BitAnd(a, b) ==
    IF a = 0 \/ b = 0 THEN 0
    ELSE ((a % 2) * (b % 2)) + 2 * BitAnd(a \div 2, b \div 2)

RECURSIVE BitOr(_, _)
BitOr(a, b) ==
    IF a = 0 THEN b
    ELSE IF b = 0 THEN a
    ELSE (IF (a % 2) + (b % 2) > 0 THEN 1 ELSE 0) + 2 * BitOr(a \div 2, b \div 2)

RECURSIVE BitXor(_, _)
BitXor(a, b) ==
    IF a = 0 THEN b
    ELSE IF b = 0 THEN a
    ELSE (((a % 2) + (b % 2)) % 2) + 2 * BitXor(a \div 2, b \div 2)

And32(x, y) == [k \in 1 .. 4 |-> BitAnd(x[k], y[k])]

Or32(x, y) == [k \in 1 .. 4 |-> BitOr(x[k], y[k])]

Xor32(x, y) == [k \in 1 .. 4 |-> BitXor(x[k], y[k])]

Not32(x) == [k \in 1 .. 4 |-> 255 - x[k]]

Zero32 == <<0, 0, 0, 0>>

AllOnes32 == <<255, 255, 255, 255>>

\* FreeRTOS_htonl on a little-endian build: the four bytes are reversed.
FreeRTOS_htonl(x) == <<x[4], x[3], x[2], x[1]>>

FreeRTOS_ntohl(x) == FreeRTOS_htonl(x)

\* FreeRTOS_inet_addr_quick on a little-endian build: the first octet of the
\* dotted address becomes the least significant byte.
FreeRTOS_inet_addr_quick(o1, o2, o3, o4) == <<o4, o3, o2, o1>>

\* The low-order byte of a uint32_t ( x & 0xff ).
LowByte(x) == x[4]

\* xIsIPv4Multicast: 224.0.0.0 <= ntohl( address ) < 240.0.0.0.
xIsIPv4Multicast(ulIPAddress) ==
    LET ulIP == FreeRTOS_ntohl(ulIPAddress)
    IN  ulIP[1] >= 224 /\ ulIP[1] < 240

(***************************************************************************)
(* IPv6 addresses are 16 bytes.                                            *)
(***************************************************************************)
Zero128 == [k \in 1 .. 16 |-> 0]

Addr6(hi, lo) == [k \in 1 .. 16 |-> IF k = 1 THEN hi ELSE IF k = 16 THEN lo ELSE 0]

(***************************************************************************)
(* The storage blocks the caller supplies.  They are statically allocated, *)
(* hence zero before the first call.                                       *)
(***************************************************************************)
ZeroIPv4Parameters ==
    [ulIPAddress |-> Zero32, ulNetMask |-> Zero32, ulGatewayAddress |-> Zero32,
     ulDNSServerAddresses |-> Zero32, ulBroadcastAddress |-> Zero32]

ZeroIPv6Parameters ==
    [xIPAddress |-> Zero128, uxPrefixLength |-> 0, xPrefix |-> Zero128,
     xGatewayAddress |-> Zero128, xDNSServerAddresses |-> Zero128]

ZeroMAC == <<0, 0, 0, 0, 0, 0>>

\* memset( pxEndPoint, 0, sizeof( *pxEndPoint ) )
ZeroEndPoint ==
    [pxNext |-> NULL, pxNetworkInterface |-> NULL, bIPv6 |-> FALSE,
     xMACAddress |-> ZeroMAC,
     ipv4_settings |-> ZeroIPv4Parameters, ipv4_defaults |-> ZeroIPv4Parameters,
     ipv6_settings |-> ZeroIPv6Parameters, ipv6_defaults |-> ZeroIPv6Parameters]

ZeroInterface == [pxNext |-> NULL, pxEndPoint |-> NULL]

VARIABLES
    pxNetworkInterfaces,   \* head of the list of interfaces
    pxNetworkEndPoints,    \* head of the list of end-points
    xInterfaces,           \* the NetworkInterface_t objects
    xEndPoints,            \* the NetworkEndPoint_t objects
    xLast,                 \* the call that was made last, with its result
    xAddCalls,             \* the interfaces passed to FreeRTOS_AddNetworkInterface
    xSockets,              \* pxEndPoint of the FreeRTOS_Socket_t objects
    xReaders,              \* the look-up each reading task is in, and how far
    uxOps                  \* calls counted against the bound MaxOps

vars == <<pxNetworkInterfaces, pxNetworkEndPoints, xInterfaces, xEndPoints,
          xLast, xAddCalls, xSockets, xReaders, uxOps>>

registry == <<pxNetworkInterfaces, pxNetworkEndPoints, xInterfaces, xEndPoints>>

NoCall == [op |-> "none", args |-> <<>>, result |-> NULL]

\* A task that is in no look-up.
IdleReader ==
    [pc |-> "idle", op |-> "none", args |-> <<>>, phase |-> "none",
     pxEndPoint |-> NULL, result |-> NULL]

Init ==
    /\ pxNetworkInterfaces = NULL
    /\ pxNetworkEndPoints = NULL
    /\ xInterfaces = [i \in Interfaces |-> ZeroInterface]
    /\ xEndPoints = [e \in EndPoints |-> ZeroEndPoint]
    /\ xLast = NoCall
    /\ xAddCalls = <<>>
    /\ xSockets = [s \in Sockets |-> NULL]
    /\ xReaders = [r \in Readers |-> IdleReader]
    /\ uxOps = 0

(***************************************************************************)
(* Enumeration of the two lists, by following the pxNext pointers.  The    *)
(* fuel bounds the walk by the number of objects there are.                *)
(***************************************************************************)
ScanFuel == NumInterfaces + NumEndPoints + 1

RECURSIVE InterfaceWalk(_, _, _)
InterfaceWalk(ifs, pxInterface, fuel) ==
    IF pxInterface = NULL \/ fuel = 0 THEN <<>>
    ELSE <<pxInterface>> \o InterfaceWalk(ifs, ifs[pxInterface].pxNext, fuel - 1)

FreeRTOS_FirstNetworkInterface == pxNetworkInterfaces

FreeRTOS_NextNetworkInterface(pxInterface) ==
    IF pxInterface /= NULL THEN xInterfaces[pxInterface].pxNext ELSE NULL

\* FreeRTOS_FirstNetworkInterface(), then FreeRTOS_NextNetworkInterface()
\* until it returns NULL.
RECURSIVE EnumerateInterfaces(_, _)
EnumerateInterfaces(pxInterface, fuel) ==
    IF pxInterface = NULL \/ fuel = 0 THEN <<>>
    ELSE <<pxInterface>> \o
         EnumerateInterfaces(FreeRTOS_NextNetworkInterface(pxInterface), fuel - 1)

InterfaceList == EnumerateInterfaces(FreeRTOS_FirstNetworkInterface, ScanFuel)

RECURSIVE EndPointWalk(_, _, _)
EndPointWalk(eps, pxEndPoint, fuel) ==
    IF pxEndPoint = NULL \/ fuel = 0 THEN <<>>
    ELSE <<pxEndPoint>> \o EndPointWalk(eps, eps[pxEndPoint].pxNext, fuel - 1)

Range(s) == {s[k] : k \in 1 .. Len(s)}

IsPrefix(s, t) == Len(s) <= Len(t) /\ \A k \in 1 .. Len(s) : s[k] = t[k]

NoDuplicates(s) == \A j, k \in 1 .. Len(s) : s[j] = s[k] => j = k

(***************************************************************************)
(* FreeRTOS_AddNetworkInterface                                            *)
(***************************************************************************)
RECURSIVE prvInterfaceScan(_, _, _, _)
prvInterfaceScan(ifs, pxIterator, pxInterface, fuel) ==
    IF fuel = 0 THEN ifs
    ELSE IF pxIterator = pxInterface THEN ifs
    ELSE IF ifs[pxIterator].pxNext = NULL
         THEN [ifs EXCEPT ![pxIterator].pxNext = pxInterface]
    ELSE prvInterfaceScan(ifs, ifs[pxIterator].pxNext, pxInterface, fuel - 1)

\* A variant that links a new interface in front of the list.
AddNetworkInterfaceResult_AtHead(head, ifs, pxInterface) ==
    IF head = NULL \/ pxInterface \in Range(InterfaceWalk(ifs, head, ScanFuel))
    THEN [head |-> IF head = NULL THEN pxInterface ELSE head, ifs |-> ifs]
    ELSE [head |-> pxInterface,
          ifs |-> [ifs EXCEPT ![pxInterface] = [pxNext |-> head, pxEndPoint |-> NULL]]]

\* A variant that links the interface behind the last one without looking
\* whether it is in the list already.
AddNetworkInterfaceResult_NoPresenceTest(head, ifs, pxInterface) ==
    LET walk == InterfaceWalk(ifs, head, NumInterfaces)
    IN  IF head = NULL
        THEN [head |-> pxInterface,
              ifs |-> [ifs EXCEPT ![pxInterface] = [pxNext |-> NULL, pxEndPoint |-> NULL]]]
        ELSE [head |-> head,
              ifs |-> [ifs EXCEPT ![walk[Len(walk)]].pxNext = pxInterface]]

\* The list head and the interface objects after the call.
AddNetworkInterfaceResult(head, ifs, pxInterface) ==
    LET cleared == [ifs EXCEPT ![pxInterface] = [pxNext |-> NULL, pxEndPoint |-> NULL]]
    IN  IF head = NULL
        THEN [head |-> pxInterface, ifs |-> cleared]
        ELSE [head |-> head,
              ifs |-> prvInterfaceScan(cleared, head, pxInterface, ScanFuel)]

FreeRTOS_AddNetworkInterface(pxInterface) ==
    LET r == AddNetworkInterfaceResult(pxNetworkInterfaces, xInterfaces, pxInterface)
    IN  /\ uxOps < MaxOps
        /\ pxNetworkInterfaces' = r.head
        /\ xInterfaces' = r.ifs
        /\ xLast' = [op |-> "AddNetworkInterface", args |-> <<pxInterface>>,
                     result |-> pxInterface]
        /\ xAddCalls' = Append(xAddCalls, pxInterface)
        /\ uxOps' = uxOps + 1
        /\ UNCHANGED <<pxNetworkEndPoints, xEndPoints, xSockets, xReaders>>

(***************************************************************************)
(* FreeRTOS_AddEndPoint                                                    *)
(***************************************************************************)
RECURSIVE prvEndPointScan(_, _, _, _)
prvEndPointScan(eps, pxIterator, pxEndPoint, fuel) ==
    IF fuel = 0 THEN eps
    ELSE IF pxIterator = pxEndPoint THEN eps
    ELSE IF eps[pxIterator].pxNext = NULL
         THEN [eps EXCEPT ![pxIterator].pxNext = pxEndPoint]
    ELSE prvEndPointScan(eps, eps[pxIterator].pxNext, pxEndPoint, fuel - 1)

\* The list head, the interface objects and the end-point objects after the call.
FreeRTOS_AddEndPoint(head, ifs, eps, pxInterface, pxEndPoint) ==
    LET linked == [eps EXCEPT ![pxEndPoint].pxNext = NULL,
                              ![pxEndPoint].pxNetworkInterface = pxInterface]
        ifs2 == IF ifs[pxInterface].pxEndPoint = NULL
                THEN [ifs EXCEPT ![pxInterface].pxEndPoint = pxEndPoint]
                ELSE ifs
    IN  IF head = NULL
        THEN [head |-> pxEndPoint, ifs |-> ifs2, eps |-> linked]
        ELSE [head |-> head, ifs |-> ifs2,
              eps |-> prvEndPointScan(linked, head, pxEndPoint, ScanFuel)]

(***************************************************************************)
(* The inputs of the configuration calls: dotted addresses as four octets. *)
(***************************************************************************)
MAC1 == <<0, 17, 34, 51, 68, 1>>

MAC2 == <<0, 17, 34, 51, 68, 2>>

Configs4 ==
    { [ip |-> <<10, 0, 0, 5>>, mask |-> <<255, 255, 255, 0>>,
       gw |-> <<10, 0, 0, 1>>, dns |-> <<8, 8, 8, 8>>, mac |-> MAC1],
      [ip |-> <<192, 168, 1, 5>>, mask |-> <<255, 255, 255, 0>>,
       gw |-> <<0, 0, 0, 0>>, dns |-> <<0, 0, 0, 0>>, mac |-> MAC2],
      [ip |-> <<10, 0, 0, 255>>, mask |-> <<255, 255, 0, 0>>,
       gw |-> <<0, 0, 0, 0>>, dns |-> <<8, 8, 8, 8>>, mac |-> MAC1],
      [ip |-> <<172, 16, 0, 5>>, mask |-> <<255, 255, 255, 128>>,
       gw |-> <<172, 16, 0, 1>>, dns |-> <<0, 0, 0, 0>>, mac |-> MAC2] }

\* An omitted (NULL) IPv6 address pointer.
NullAddress6 == <<>>

Configs6 ==
    { [ip |-> Addr6(254, 1), prefix |-> NullAddress6, len |-> 10,
       gw |-> NullAddress6, dns |-> NullAddress6, mac |-> MAC1],
      [ip |-> Addr6(32, 5), prefix |-> Addr6(32, 0), len |-> 64,
       gw |-> Addr6(32, 1), dns |-> Addr6(32, 53), mac |-> MAC2] }

(***************************************************************************)
(* FreeRTOS_FillEndPoint: the end-point object as written by lines 89-109, *)
(* before it is handed to FreeRTOS_AddEndPoint.                            *)
(***************************************************************************)
\* A variant that also stores the address in the current settings.
FillEndPointObject_AddressSet(ucIPAddress, ucNetMask, ucGatewayAddress, ucDNSServerAddress, ucMACAddress) ==
    LET ulIPAddress == FreeRTOS_inet_addr_quick(ucIPAddress[1], ucIPAddress[2],
                                                ucIPAddress[3], ucIPAddress[4])
        ulNetMask == FreeRTOS_inet_addr_quick(ucNetMask[1], ucNetMask[2],
                                              ucNetMask[3], ucNetMask[4])
        settings ==
            [ulIPAddress |-> ulIPAddress,
             ulNetMask |-> ulNetMask,
             ulGatewayAddress |->
                 FreeRTOS_inet_addr_quick(ucGatewayAddress[1], ucGatewayAddress[2],
                                          ucGatewayAddress[3], ucGatewayAddress[4]),
             ulDNSServerAddresses |->
                 FreeRTOS_inet_addr_quick(ucDNSServerAddress[1], ucDNSServerAddress[2],
                                          ucDNSServerAddress[3], ucDNSServerAddress[4]),
             ulBroadcastAddress |-> Or32(ulIPAddress, Not32(ulNetMask))]
    IN  [ZeroEndPoint EXCEPT
            !.ipv4_settings = settings,
            !.ipv4_defaults = [settings EXCEPT !.ulIPAddress = ulIPAddress],
            !.xMACAddress = ucMACAddress]

\* A variant that forgets to invert the netmask for the broadcast address.
FillEndPointObject_MaskNotInverted(ucIPAddress, ucNetMask, ucGatewayAddress, ucDNSServerAddress, ucMACAddress) ==
    LET ulIPAddress == FreeRTOS_inet_addr_quick(ucIPAddress[1], ucIPAddress[2],
                                                ucIPAddress[3], ucIPAddress[4])
        ulNetMask == FreeRTOS_inet_addr_quick(ucNetMask[1], ucNetMask[2],
                                              ucNetMask[3], ucNetMask[4])
        settings ==
            [ulIPAddress |-> Zero32,
             ulNetMask |-> ulNetMask,
             ulGatewayAddress |->
                 FreeRTOS_inet_addr_quick(ucGatewayAddress[1], ucGatewayAddress[2],
                                          ucGatewayAddress[3], ucGatewayAddress[4]),
             ulDNSServerAddresses |->
                 FreeRTOS_inet_addr_quick(ucDNSServerAddress[1], ucDNSServerAddress[2],
                                          ucDNSServerAddress[3], ucDNSServerAddress[4]),
             ulBroadcastAddress |-> Or32(ulIPAddress, ulNetMask)]
    IN  [ZeroEndPoint EXCEPT
            !.ipv4_settings = settings,
            !.ipv4_defaults = [settings EXCEPT !.ulIPAddress = ulIPAddress],
            !.xMACAddress = ucMACAddress]

FillEndPointObject(ucIPAddress, ucNetMask, ucGatewayAddress, ucDNSServerAddress, ucMACAddress) ==
    LET ulIPAddress == FreeRTOS_inet_addr_quick(ucIPAddress[1], ucIPAddress[2],
                                                ucIPAddress[3], ucIPAddress[4])
        ulNetMask == FreeRTOS_inet_addr_quick(ucNetMask[1], ucNetMask[2],
                                              ucNetMask[3], ucNetMask[4])
        settings ==
            [ulIPAddress |-> Zero32,
             ulNetMask |-> ulNetMask,
             ulGatewayAddress |->
                 FreeRTOS_inet_addr_quick(ucGatewayAddress[1], ucGatewayAddress[2],
                                          ucGatewayAddress[3], ucGatewayAddress[4]),
             ulDNSServerAddresses |->
                 FreeRTOS_inet_addr_quick(ucDNSServerAddress[1], ucDNSServerAddress[2],
                                          ucDNSServerAddress[3], ucDNSServerAddress[4]),
             ulBroadcastAddress |-> Or32(ulIPAddress, Not32(ulNetMask))]
    IN  [ZeroEndPoint EXCEPT
            !.ipv4_settings = settings,
            !.ipv4_defaults = [settings EXCEPT !.ulIPAddress = ulIPAddress],
            !.xMACAddress = ucMACAddress]

\* pxEndPoint = NULL: the memset of line 89 and the stores after it go
\* through a NULL pointer, which is undefined.  Either the access faults,
\* or the stores land outside the registry; FreeRTOS_AddEndPoint then
\* leaves the heads and the pxNext and pxEndPoint fields as they are.
\* No configASSERT is met on the way.
FillNullStorage(op, args) ==
    /\ \E r \in {FAULT, NULL} :
           /\ xLast' = [op |-> op, args |-> args, result |-> r]
           /\ uxOps' = IF r = FAULT THEN MaxOps ELSE uxOps + 1
    /\ UNCHANGED <<pxNetworkEndPoints, xInterfaces, xEndPoints>>

FreeRTOS_FillEndPoint(pxNetworkInterface, pxEndPoint, cfg) ==
    LET filled == [xEndPoints EXCEPT ![pxEndPoint] =
                       FillEndPointObject(cfg.ip, cfg.mask, cfg.gw, cfg.dns, cfg.mac)]
        r == FreeRTOS_AddEndPoint(pxNetworkEndPoints, xInterfaces, filled,
                                  pxNetworkInterface, pxEndPoint)
    IN  /\ uxOps < MaxOps
        /\ IF pxEndPoint = NULL
           THEN FillNullStorage("FillEndPoint", <<pxNetworkInterface, pxEndPoint, cfg>>)
           ELSE /\ pxNetworkEndPoints' = r.head
                /\ xInterfaces' = r.ifs
                /\ xEndPoints' = r.eps
                /\ xLast' = [op |-> "FillEndPoint",
                             args |-> <<pxNetworkInterface, pxEndPoint, cfg>>,
                             result |-> NULL]
                /\ uxOps' = uxOps + 1
        /\ UNCHANGED <<pxNetworkInterfaces, xAddCalls, xSockets, xReaders>>

(***************************************************************************)
(* FreeRTOS_FillEndPoint_IPv6: the end-point object as written by lines    *)
(* 579-605.                                                                *)
(***************************************************************************)
\* A variant that also stores the address in the current settings.
FillEndPointObject_IPv6_AddressSet(pxIPAddress, pxNetPrefix, uxPrefixLength, pxGatewayAddress, pxDNSServerAddress, ucMACAddress) ==
    LET settings ==
            [xIPAddress |-> pxIPAddress,
             uxPrefixLength |-> uxPrefixLength,
             xGatewayAddress |->
                 IF pxGatewayAddress /= NullAddress6 THEN pxGatewayAddress ELSE Zero128,
             xDNSServerAddresses |->
                 IF pxDNSServerAddress /= NullAddress6 THEN pxDNSServerAddress ELSE Zero128,
             xPrefix |-> IF pxNetPrefix /= NullAddress6 THEN pxNetPrefix ELSE Zero128]
    IN  [ZeroEndPoint EXCEPT
            !.bIPv6 = TRUE,
            !.ipv6_settings = settings,
            !.ipv6_defaults = settings,
            !.xMACAddress = ucMACAddress]

FillEndPointObject_IPv6(pxIPAddress, pxNetPrefix, uxPrefixLength, pxGatewayAddress, pxDNSServerAddress, ucMACAddress) ==
    LET settings ==
            [xIPAddress |-> Zero128,
             uxPrefixLength |-> uxPrefixLength,
             xGatewayAddress |->
                 IF pxGatewayAddress /= NullAddress6 THEN pxGatewayAddress ELSE Zero128,
             xDNSServerAddresses |->
                 IF pxDNSServerAddress /= NullAddress6 THEN pxDNSServerAddress ELSE Zero128,
             xPrefix |-> IF pxNetPrefix /= NullAddress6 THEN pxNetPrefix ELSE Zero128]
    IN  [ZeroEndPoint EXCEPT
            !.bIPv6 = TRUE,
            !.ipv6_settings = settings,
            !.ipv6_defaults = [settings EXCEPT !.xIPAddress = pxIPAddress],
            !.xMACAddress = ucMACAddress]

FreeRTOS_FillEndPoint_IPv6(pxNetworkInterface, pxEndPoint, cfg) ==
    LET filled == [xEndPoints EXCEPT ![pxEndPoint] =
                       FillEndPointObject_IPv6(cfg.ip, cfg.prefix, cfg.len,
                                               cfg.gw, cfg.dns, cfg.mac)]
        r == FreeRTOS_AddEndPoint(pxNetworkEndPoints, xInterfaces, filled,
                                  pxNetworkInterface, pxEndPoint)
    IN  /\ uxOps < MaxOps
        /\ IF pxEndPoint = NULL
           THEN \* configASSERT( pxEndPoint != NULL )
                /\ xLast' = [op |-> "FillEndPoint_IPv6",
                             args |-> <<pxNetworkInterface, pxEndPoint, cfg>>,
                             result |-> ASSERT_FAILED]
                /\ uxOps' = MaxOps
                /\ UNCHANGED <<pxNetworkEndPoints, xInterfaces, xEndPoints>>
           ELSE /\ pxNetworkEndPoints' = r.head
                /\ xInterfaces' = r.ifs
                /\ xEndPoints' = r.eps
                /\ xLast' = [op |-> "FillEndPoint_IPv6",
                             args |-> <<pxNetworkInterface, pxEndPoint, cfg>>,
                             result |-> NULL]
                /\ uxOps' = uxOps + 1
        /\ UNCHANGED <<pxNetworkInterfaces, xAddCalls, xSockets, xReaders>>

(***************************************************************************)
(* End-point iteration.                                                    *)
(***************************************************************************)
RECURSIVE prvEndPointSearch(_, _, _)
\* Follow pxNext from pxEndPoint to the first end-point bound to pxInterface
\* (any end-point when pxInterface is NULL).
prvEndPointSearch(pxInterface, pxEndPoint, fuel) ==
    IF pxEndPoint = NULL \/ fuel = 0 THEN NULL
    ELSE IF pxInterface = NULL \/ xEndPoints[pxEndPoint].pxNetworkInterface = pxInterface
         THEN pxEndPoint
    ELSE prvEndPointSearch(pxInterface, xEndPoints[pxEndPoint].pxNext, fuel - 1)

FreeRTOS_FirstEndPoint(pxInterface) ==
    prvEndPointSearch(pxInterface, pxNetworkEndPoints, ScanFuel)

FreeRTOS_NextEndPoint(pxInterface, pxEndPoint) ==
    IF pxEndPoint /= NULL
    THEN prvEndPointSearch(pxInterface, xEndPoints[pxEndPoint].pxNext, ScanFuel)
    ELSE NULL

\* FreeRTOS_FirstEndPoint(), then FreeRTOS_NextEndPoint() until it returns NULL.
RECURSIVE EnumerateEndPoints(_, _, _)
EnumerateEndPoints(pxInterface, pxEndPoint, fuel) ==
    IF pxEndPoint = NULL \/ fuel = 0 THEN <<>>
    ELSE <<pxEndPoint>> \o
         EnumerateEndPoints(pxInterface, FreeRTOS_NextEndPoint(pxInterface, pxEndPoint),
                            fuel - 1)

\* The end-points enumerated with the given interface filter.
EndPointList(pxInterface) ==
    EnumerateEndPoints(pxInterface, FreeRTOS_FirstEndPoint(pxInterface), ScanFuel)

(***************************************************************************)
(* The network of an interface coming up with static addresses: every      *)
(* end-point of the interface starts using its default settings.           *)
(***************************************************************************)
UseDefaultSettings(pxInterface) ==
    LET bound == Range(EndPointList(pxInterface))
    IN  /\ uxOps < MaxOps
        /\ xEndPoints' =
               [e \in EndPoints |->
                   IF e \in bound
                   THEN IF xEndPoints[e].bIPv6
                        THEN [xEndPoints[e] EXCEPT
                                 !.ipv6_settings = xEndPoints[e].ipv6_defaults]
                        ELSE [xEndPoints[e] EXCEPT
                                 !.ipv4_settings = xEndPoints[e].ipv4_defaults]
                   ELSE xEndPoints[e]]
        /\ xLast' = [op |-> "UseDefaultSettings", args |-> <<pxInterface>>,
                     result |-> NULL]
        /\ uxOps' = uxOps + 1
        /\ UNCHANGED <<pxNetworkInterfaces, pxNetworkEndPoints, xInterfaces, xAddCalls, xSockets, xReaders>>

(***************************************************************************)
(* The registration phase: interfaces and end-points are added in any      *)
(* order, on fresh or on reused storage.  Storage blocks are               *)
(* interchangeable, so the caller takes up fresh blocks in index order:    *)
(* block n + 1 is first used after block n.                                *)
(***************************************************************************)
SetMax(S) == IF S = {} THEN 0 ELSE CHOOSE m \in S : \A n \in S : n <= m

InterfacesInUse ==
    (Range(xAddCalls) \cup {xEndPoints[e].pxNetworkInterface : e \in EndPoints}) \ {NULL}

EndPointsInUse == {e \in EndPoints : xEndPoints[e] /= ZeroEndPoint}

CallerInterfaces == {i \in Interfaces : i <= SetMax(InterfacesInUse) + 1}

CallerEndPoints == {e \in EndPoints : e <= SetMax(EndPointsInUse) + 1}

Next ==
    \/ \E i \in CallerInterfaces : FreeRTOS_AddNetworkInterface(i)
    \/ \E i \in CallerInterfaces, e \in CallerEndPoints, c \in Configs4 :
           FreeRTOS_FillEndPoint(i, e, c)
    \/ \E i \in CallerInterfaces, e \in CallerEndPoints, c \in Configs6 :
           FreeRTOS_FillEndPoint_IPv6(i, e, c)
    \/ \E i \in CallerInterfaces : UseDefaultSettings(i)

Spec == Init /\ [][Next]_vars

(***************************************************************************)
(* Properties of the registries.                                           *)
(***************************************************************************)
Registered(pxInterface) == pxInterface \in Range(InterfaceList)

FilledIPv4 == {e \in EndPoints : xEndPoints[e] /= ZeroEndPoint /\ ~xEndPoints[e].bIPv6}

\* C1: FreeRTOS_AddNetworkInterface on an interface that is already in the
\* list leaves the enumerated list of interfaces as it was, wherever the
\* interface stands in the list.
C1_ReRegisterKeepsList ==
    [][\A i \in Interfaces :
          (Registered(i) /\ FreeRTOS_AddNetworkInterface(i))
              => InterfaceList' = InterfaceList]_vars

\* C2: as long as the interfaces passed to FreeRTOS_AddNetworkInterface were
\* pairwise distinct, FirstNetworkInterface/NextNetworkInterface enumerate
\* exactly the interfaces passed, in the order of the calls, and the one
\* passed last is followed by NULL.
C2_OrderIsCallOrder ==
    NoDuplicates(xAddCalls) =>
        /\ InterfaceList = xAddCalls
        /\ FreeRTOS_FirstNetworkInterface =
               (IF xAddCalls = <<>> THEN NULL ELSE xAddCalls[1])
        /\ xAddCalls /= <<>> =>
               FreeRTOS_NextNetworkInterface(xAddCalls[Len(xAddCalls)]) = NULL

C2_Witness ==
    /\ xAddCalls = <<2, 1>>
    /\ InterfaceList = <<2, 1>>

\* C3: the list of end-points enumerated without an interface filter only
\* grows at its end: after every step the old list is a prefix of the new.
C3_EndPointsAppendOnly ==
    [][IsPrefix(EndPointList(NULL), EndPointList(NULL)')]_vars

\* C4: an end-point of the list that is bound to an interface stays bound to
\* that interface in every later state.
C4_OwnerNeverReassigned ==
    [][\A e \in EndPoints :
          (e \in Range(EndPointList(NULL)) /\ xEndPoints[e].pxNetworkInterface /= NULL)
              => xEndPoints'[e].pxNetworkInterface = xEndPoints[e].pxNetworkInterface]_vars

\* C5: right after FreeRTOS_FillEndPoint the default settings equal the
\* current settings in netmask, gateway, DNS and broadcast, the current
\* address is zero and the default address is the address supplied.
C5_FillDefaults ==
    xLast.op = "FillEndPoint" =>
        LET ep == xEndPoints[xLast.args[2]]
            ip == xLast.args[3].ip
        IN  /\ ep.ipv4_defaults.ulNetMask = ep.ipv4_settings.ulNetMask
            /\ ep.ipv4_defaults.ulGatewayAddress = ep.ipv4_settings.ulGatewayAddress
            /\ ep.ipv4_defaults.ulDNSServerAddresses = ep.ipv4_settings.ulDNSServerAddresses
            /\ ep.ipv4_defaults.ulBroadcastAddress = ep.ipv4_settings.ulBroadcastAddress
            /\ ep.ipv4_settings.ulIPAddress = Zero32
            /\ ep.ipv4_defaults.ulIPAddress =
                   FreeRTOS_inet_addr_quick(ip[1], ip[2], ip[3], ip[4])

C5_Witness ==
    /\ xLast.op = "FillEndPoint"
    /\ xLast.args[3].ip = <<192, 168, 1, 5>>
    /\ xEndPoints[xLast.args[2]].ipv4_defaults.ulIPAddress =
           FreeRTOS_inet_addr_quick(192, 168, 1, 5)
    /\ xEndPoints[xLast.args[2]].ipv4_settings.ulNetMask /= Zero32
    /\ Len(EndPointList(NULL)) = 2

\* C6 as stated: for every filled IPv4 end-point the broadcast field of the
\* current settings is ( address | ~netmask ) of the same current settings.
C6_BroadcastOfCurrentAddress ==
    \A e \in FilledIPv4 :
        xEndPoints[e].ipv4_settings.ulBroadcastAddress =
            Or32(xEndPoints[e].ipv4_settings.ulIPAddress,
                 Not32(xEndPoints[e].ipv4_settings.ulNetMask))

\* C6 as amended: for every filled IPv4 end-point the broadcast field of the
\* current settings is ( A | ~netmask ) over 32 bits, with A the address of
\* the default settings and netmask the netmask of the current settings;
\* the current address is either still zero or equal to A.
C6_BroadcastOfDefaultAddress ==
    \A e \in FilledIPv4 :
        /\ xEndPoints[e].ipv4_settings.ulBroadcastAddress =
               Or32(xEndPoints[e].ipv4_defaults.ulIPAddress,
                    Not32(xEndPoints[e].ipv4_settings.ulNetMask))
        /\ xEndPoints[e].ipv4_settings.ulIPAddress
               \in {Zero32, xEndPoints[e].ipv4_defaults.ulIPAddress}

C6_Witness ==
    \E e \in FilledIPv4 :
        /\ xEndPoints[e].ipv4_settings.ulIPAddress = FreeRTOS_inet_addr_quick(172, 16, 0, 5)
        /\ xEndPoints[e].ipv4_settings.ulBroadcastAddress =
               FreeRTOS_inet_addr_quick(172, 16, 0, 127)

(***************************************************************************)
(* FreeRTOS_InterfaceEndPointOnNetMask and FreeRTOS_FindEndPointOnNetMask. *)
(* The parameter ulWhere only feeds the statistics and the debug output.   *)
(***************************************************************************)
RECURSIVE prvNetMaskScan_AnyInterface(_, _, _, _)
\* A variant that forgets the interface filter.
prvNetMaskScan_AnyInterface(pxInterface, ulIPAddress, pxEndPoint, fuel) ==
    IF pxEndPoint = NULL \/ fuel = 0 THEN NULL
    ELSE IF /\ ~xEndPoints[pxEndPoint].bIPv6
            /\ And32(ulIPAddress, xEndPoints[pxEndPoint].ipv4_settings.ulNetMask) =
                   And32(xEndPoints[pxEndPoint].ipv4_settings.ulIPAddress,
                         xEndPoints[pxEndPoint].ipv4_settings.ulNetMask)
         THEN pxEndPoint
    ELSE prvNetMaskScan_AnyInterface(pxInterface, ulIPAddress,
                                     xEndPoints[pxEndPoint].pxNext, fuel - 1)

RECURSIVE prvNetMaskScan(_, _, _, _)
prvNetMaskScan(pxInterface, ulIPAddress, pxEndPoint, fuel) ==
    IF pxEndPoint = NULL \/ fuel = 0 THEN NULL
    ELSE IF /\ (pxInterface = NULL
                    \/ xEndPoints[pxEndPoint].pxNetworkInterface = pxInterface)
            /\ ~xEndPoints[pxEndPoint].bIPv6
            /\ And32(ulIPAddress, xEndPoints[pxEndPoint].ipv4_settings.ulNetMask) =
                   And32(xEndPoints[pxEndPoint].ipv4_settings.ulIPAddress,
                         xEndPoints[pxEndPoint].ipv4_settings.ulNetMask)
         THEN pxEndPoint
    ELSE prvNetMaskScan(pxInterface, ulIPAddress, xEndPoints[pxEndPoint].pxNext, fuel - 1)

FreeRTOS_InterfaceEndPointOnNetMask(pxInterface, ulIPAddress) ==
    prvNetMaskScan(pxInterface, ulIPAddress, pxNetworkEndPoints, ScanFuel)

FreeRTOS_FindEndPointOnNetMask(ulIPAddress) ==
    FreeRTOS_InterfaceEndPointOnNetMask(NULL, ulIPAddress)

LookupAddresses ==
    { FreeRTOS_inet_addr_quick(10, 0, 0, 7), FreeRTOS_inet_addr_quick(10, 0, 9, 9),
      FreeRTOS_inet_addr_quick(192, 168, 1, 9), FreeRTOS_inet_addr_quick(172, 16, 0, 200),
      FreeRTOS_inet_addr_quick(0, 0, 0, 9), FreeRTOS_inet_addr_quick(8, 8, 8, 8) }

\* A look-up leaves the registry as it is, so what can follow a look-up is
\* what can follow the state before it: a run is explored up to its first
\* look-up, which uses up what is left of the bound on the calls.
CallInterfaceEndPointOnNetMask(pxInterface, ulIPAddress) ==
    /\ uxOps < MaxOps
    /\ xLast' = [op |-> "InterfaceEndPointOnNetMask",
                 args |-> <<pxInterface, ulIPAddress>>,
                 result |-> FreeRTOS_InterfaceEndPointOnNetMask(pxInterface, ulIPAddress)]
    /\ uxOps' = MaxOps
    /\ UNCHANGED <<registry, xAddCalls, xSockets, xReaders>>

CallFindEndPointOnNetMask(ulIPAddress) ==
    /\ uxOps < MaxOps
    /\ xLast' = [op |-> "FindEndPointOnNetMask", args |-> <<NULL, ulIPAddress>>,
                 result |-> FreeRTOS_FindEndPointOnNetMask(ulIPAddress)]
    /\ uxOps' = MaxOps
    /\ UNCHANGED <<registry, xAddCalls, xSockets, xReaders>>

NextNetMask ==
    \/ Next
    \/ \E i \in CallerInterfaces, a \in LookupAddresses : CallInterfaceEndPointOnNetMask(i, a)
    \/ \E a \in LookupAddresses : CallFindEndPointOnNetMask(a)

SpecNetMask == Init /\ [][NextNetMask]_vars

\* The positions, in the list of all end-points, of the IPv4 end-points of
\* the filtered set that are on the same subnet as the address.
OnNetMaskCandidates(pxInterface, ulIPAddress) ==
    LET list == EndPointList(NULL)
    IN  {k \in 1 .. Len(list) :
            /\ pxInterface = NULL \/ xEndPoints[list[k]].pxNetworkInterface = pxInterface
            /\ ~xEndPoints[list[k]].bIPv6
            /\ And32(ulIPAddress, xEndPoints[list[k]].ipv4_settings.ulNetMask) =
                   And32(xEndPoints[list[k]].ipv4_settings.ulIPAddress,
                         xEndPoints[list[k]].ipv4_settings.ulNetMask)}

SetMin(S) == CHOOSE m \in S : \A n \in S : m <= n

\* C7: FindEndPointOnNetMask / InterfaceEndPointOnNetMask return NULL exactly
\* when no IPv4 end-point of the filtered set has ( addr & netmask ) ==
\* ( address & netmask ), and otherwise the first such end-point of the list.
C7_OnNetMask ==
    xLast.op \in {"InterfaceEndPointOnNetMask", "FindEndPointOnNetMask"} =>
        LET cand == OnNetMaskCandidates(xLast.args[1], xLast.args[2])
        IN  /\ (xLast.result = NULL) <=> (cand = {})
            /\ cand /= {} => xLast.result = EndPointList(NULL)[SetMin(cand)]

C7_Witness ==
    /\ xLast.op = "InterfaceEndPointOnNetMask"
    /\ xLast.args[1] /= NULL
    /\ Cardinality(OnNetMaskCandidates(xLast.args[1], xLast.args[2])) = 2
    /\ xLast.result = EndPointList(NULL)[1]
    /\ xEndPoints[xLast.result].ipv4_settings.ulIPAddress /= Zero32

(***************************************************************************)
(* FreeRTOS_FindEndPointOnIP_IPv4 and FreeRTOS_FirstEndPoint_IPv6.         *)
(***************************************************************************)
RECURSIVE prvOnIPScan_DefaultAddress(_, _, _)
\* A variant that compares with the default address.
prvOnIPScan_DefaultAddress(ulIPAddress, pxEndPoint, fuel) ==
    IF pxEndPoint = NULL \/ fuel = 0 THEN NULL
    ELSE IF /\ ~xEndPoints[pxEndPoint].bIPv6
            /\ (ulIPAddress = Zero32
                    \/ xEndPoints[pxEndPoint].ipv4_defaults.ulIPAddress = ulIPAddress)
         THEN pxEndPoint
    ELSE prvOnIPScan_DefaultAddress(ulIPAddress, xEndPoints[pxEndPoint].pxNext, fuel - 1)

RECURSIVE prvOnIPScan(_, _, _)
prvOnIPScan(ulIPAddress, pxEndPoint, fuel) ==
    IF pxEndPoint = NULL \/ fuel = 0 THEN NULL
    ELSE IF /\ ~xEndPoints[pxEndPoint].bIPv6
            /\ (ulIPAddress = Zero32
                    \/ xEndPoints[pxEndPoint].ipv4_settings.ulIPAddress = ulIPAddress)
         THEN pxEndPoint
    ELSE prvOnIPScan(ulIPAddress, xEndPoints[pxEndPoint].pxNext, fuel - 1)

FreeRTOS_FindEndPointOnIP_IPv4(ulIPAddress) ==
    prvOnIPScan(ulIPAddress, pxNetworkEndPoints, ScanFuel)

RECURSIVE prvFirstIPv6Scan(_, _, _)
prvFirstIPv6Scan(pxInterface, pxEndPoint, fuel) ==
    IF pxEndPoint = NULL \/ fuel = 0 THEN NULL
    ELSE IF /\ (pxInterface = NULL
                    \/ xEndPoints[pxEndPoint].pxNetworkInterface = pxInterface)
            /\ xEndPoints[pxEndPoint].bIPv6
         THEN pxEndPoint
    ELSE prvFirstIPv6Scan(pxInterface, xEndPoints[pxEndPoint].pxNext, fuel - 1)

FreeRTOS_FirstEndPoint_IPv6(pxInterface) ==
    prvFirstIPv6Scan(pxInterface, pxNetworkEndPoints, ScanFuel)

(***************************************************************************)
(* Comparison of two IPv6 addresses over a prefix: TRUE when they match    *)
(* ( the C function returns 0 ).  A solicited-node multicast address       *)
(* ff02::1:ffXX:XXXX matches on its last three bytes.                      *)
(***************************************************************************)
Pow2(n) == IF n = 0 THEN 1 ELSE IF n = 1 THEN 2 ELSE IF n = 2 THEN 4
           ELSE IF n = 3 THEN 8 ELSE IF n = 4 THEN 16 ELSE IF n = 5 THEN 32
           ELSE IF n = 6 THEN 64 ELSE IF n = 7 THEN 128 ELSE 256

xCompareIPv6_Address(pxLeft, pxRight, uxPrefixLength) ==
    IF pxRight[1] = 255 /\ pxRight[2] = 2 /\ pxRight[13] = 255
    THEN \A k \in 14 .. 16 : pxLeft[k] = pxRight[k]
    ELSE LET uxBytes == uxPrefixLength \div 8
             uxBits == uxPrefixLength % 8
         IN  /\ \A k \in 1 .. uxBytes : pxLeft[k] = pxRight[k]
             /\ uxBits /= 0 =>
                    (pxLeft[uxBytes + 1] \div Pow2(8 - uxBits)) =
                        (pxRight[uxBytes + 1] \div Pow2(8 - uxBits))

\* ff02::1:3, the LLMNR multicast address.
ipLLMNR_IP_ADDR_IPv6 ==
    [k \in 1 .. 16 |-> IF k = 1 THEN 255 ELSE IF k = 2 THEN 2
                       ELSE IF k = 14 THEN 1 ELSE IF k = 16 THEN 3 ELSE 0]

(***************************************************************************)
(* FreeRTOS_MatchingEndpoint.  A frame is the fields the function reads:   *)
(* the frame type, the IPv4 source and destination, the ARP target         *)
(* protocol address and the IPv6 destination.                              *)
(***************************************************************************)
RECURSIVE prvMatchScan_IPv6_AnyInterface(_, _, _, _)
\* A variant that does not look at the interface of an end-point.
prvMatchScan_IPv6_AnyInterface(pxNetworkInterface, xDestinationAddress, pxEndPoint, fuel) ==
    IF pxEndPoint = NULL \/ fuel = 0 THEN NULL
    ELSE IF /\ xEndPoints[pxEndPoint].bIPv6
            /\ xCompareIPv6_Address(xEndPoints[pxEndPoint].ipv6_settings.xIPAddress,
                                    xDestinationAddress,
                                    xEndPoints[pxEndPoint].ipv6_settings.uxPrefixLength)
         THEN pxEndPoint
    ELSE prvMatchScan_IPv6_AnyInterface(pxNetworkInterface, xDestinationAddress,
                                        xEndPoints[pxEndPoint].pxNext, fuel - 1)

RECURSIVE prvMatchScan_IPv6(_, _, _, _)
prvMatchScan_IPv6(pxNetworkInterface, xDestinationAddress, pxEndPoint, fuel) ==
    IF pxEndPoint = NULL \/ fuel = 0 THEN NULL
    ELSE IF /\ xEndPoints[pxEndPoint].bIPv6
            /\ xEndPoints[pxEndPoint].pxNetworkInterface = pxNetworkInterface
            /\ xCompareIPv6_Address(xEndPoints[pxEndPoint].ipv6_settings.xIPAddress,
                                    xDestinationAddress,
                                    xEndPoints[pxEndPoint].ipv6_settings.uxPrefixLength)
         THEN pxEndPoint
    ELSE prvMatchScan_IPv6(pxNetworkInterface, xDestinationAddress,
                           xEndPoints[pxEndPoint].pxNext, fuel - 1)

\* ( FreeRTOS_ntohl( ulIPTargetAddress ) & 0xffuL ) == 0xffuL
xIPBroadcast(ulIPTargetAddress) == LowByte(FreeRTOS_ntohl(ulIPTargetAddress)) = 255

\* A variant that always compares the source address.
ulMatchAddress_AlwaysSource(ulIPSourceAddress, ulIPTargetAddress) == ulIPSourceAddress

ulMatchAddress(ulIPSourceAddress, ulIPTargetAddress) ==
    IF ulIPTargetAddress = AllOnes32 THEN ulIPSourceAddress ELSE ulIPTargetAddress

RECURSIVE prvMatchScan_IPv4_NoBroadcastRule(_, _, _, _, _)
\* A variant without the subnet rule for broadcast frames.
prvMatchScan_IPv4_NoBroadcastRule(pxNetworkInterface, ulIPSourceAddress, ulIPTargetAddress, pxEndPoint, fuel) ==
    IF pxEndPoint = NULL \/ fuel = 0 THEN NULL
    ELSE IF xEndPoints[pxEndPoint].bIPv6
         THEN prvMatchScan_IPv4_NoBroadcastRule(pxNetworkInterface, ulIPSourceAddress,
                  ulIPTargetAddress,
                  FreeRTOS_NextEndPoint(pxNetworkInterface, pxEndPoint), fuel - 1)
    ELSE IF xEndPoints[pxEndPoint].ipv4_settings.ulIPAddress = ulIPTargetAddress
         THEN pxEndPoint
    ELSE IF xIsIPv4Multicast(ulIPTargetAddress)
         THEN pxEndPoint
    ELSE prvMatchScan_IPv4_NoBroadcastRule(pxNetworkInterface, ulIPSourceAddress,
             ulIPTargetAddress,
             FreeRTOS_NextEndPoint(pxNetworkInterface, pxEndPoint), fuel - 1)

RECURSIVE prvMatchScan_IPv4(_, _, _, _, _)
\* The for-loop over the end-points of the interface, from pxEndPoint on.
prvMatchScan_IPv4(pxNetworkInterface, ulIPSourceAddress, ulIPTargetAddress, pxEndPoint, fuel) ==
    IF pxEndPoint = NULL \/ fuel = 0 THEN NULL
    ELSE IF xEndPoints[pxEndPoint].bIPv6
         THEN prvMatchScan_IPv4(pxNetworkInterface, ulIPSourceAddress, ulIPTargetAddress,
                                FreeRTOS_NextEndPoint(pxNetworkInterface, pxEndPoint),
                                fuel - 1)
    ELSE IF xEndPoints[pxEndPoint].ipv4_settings.ulIPAddress = ulIPTargetAddress
         THEN pxEndPoint
    ELSE IF /\ xIPBroadcast(ulIPTargetAddress)
            /\ And32(Xor32(xEndPoints[pxEndPoint].ipv4_settings.ulIPAddress,
                           ulMatchAddress(ulIPSourceAddress, ulIPTargetAddress)),
                     xEndPoints[pxEndPoint].ipv4_settings.ulNetMask) = Zero32
         THEN pxEndPoint
    ELSE IF xIsIPv4Multicast(ulIPTargetAddress)
         THEN pxEndPoint
    ELSE prvMatchScan_IPv4(pxNetworkInterface, ulIPSourceAddress, ulIPTargetAddress,
                           FreeRTOS_NextEndPoint(pxNetworkInterface, pxEndPoint),
                           fuel - 1)

\* pucEthernetBuffer = NULL.  There is no frame behind the pointer; the
\* fields of this value stand for nothing and are not to be read.
NullFrame ==
    [usFrameType |-> "NULL",
     ulSourceIPAddress |-> Zero32,
     ulDestinationIPAddress |-> Zero32,
     ulTargetProtocolAddress |-> Zero32,
     xDestinationAddress |-> Zero128]

\* A variant that answers an ARP frame only with an end-point of the
\* receiving interface.
FreeRTOS_MatchingEndpoint_ARPOnInterface(pxNetworkInterface, xFrame) ==
    CASE xFrame = NullFrame -> ASSERT_FAILED
      [] xFrame.usFrameType = "IPv6" ->
            LET pxEndPoint == prvMatchScan_IPv6(pxNetworkInterface,
                                                xFrame.xDestinationAddress,
                                                pxNetworkEndPoints, ScanFuel)
            IN  IF /\ pxEndPoint = NULL
                   /\ xCompareIPv6_Address(ipLLMNR_IP_ADDR_IPv6,
                                           xFrame.xDestinationAddress, 128)
                THEN FreeRTOS_FirstEndPoint_IPv6(pxNetworkInterface)
                ELSE pxEndPoint
      [] xFrame.usFrameType = "ARP" ->
            LET pxEndPoint == FreeRTOS_FindEndPointOnIP_IPv4(xFrame.ulTargetProtocolAddress)
            IN  IF /\ pxEndPoint /= NULL
                   /\ xEndPoints[pxEndPoint].pxNetworkInterface = pxNetworkInterface
                THEN pxEndPoint
                ELSE NULL
      [] xFrame.usFrameType = "IPv4" ->
            LET pxEndPoint == prvMatchScan_IPv4(pxNetworkInterface,
                                                xFrame.ulSourceIPAddress,
                                                xFrame.ulDestinationIPAddress,
                                                FreeRTOS_FirstEndPoint(pxNetworkInterface),
                                                ScanFuel)
            IN  IF xIPBroadcast(xFrame.ulDestinationIPAddress) /\ pxEndPoint = NULL
                THEN FreeRTOS_FirstEndPoint(pxNetworkInterface)
                ELSE pxEndPoint
      [] OTHER -> NULL

FreeRTOS_MatchingEndpoint(pxNetworkInterface, xFrame) ==
    CASE xFrame = NullFrame -> ASSERT_FAILED
      [] xFrame.usFrameType = "IPv6" ->
            LET pxEndPoint == prvMatchScan_IPv6(pxNetworkInterface,
                                                xFrame.xDestinationAddress,
                                                pxNetworkEndPoints, ScanFuel)
            IN  IF /\ pxEndPoint = NULL
                   /\ xCompareIPv6_Address(ipLLMNR_IP_ADDR_IPv6,
                                           xFrame.xDestinationAddress, 128)
                THEN FreeRTOS_FirstEndPoint_IPv6(pxNetworkInterface)
                ELSE pxEndPoint
      [] xFrame.usFrameType = "ARP" ->
            FreeRTOS_FindEndPointOnIP_IPv4(xFrame.ulTargetProtocolAddress)
      [] xFrame.usFrameType = "IPv4" ->
            LET pxEndPoint == prvMatchScan_IPv4(pxNetworkInterface,
                                                xFrame.ulSourceIPAddress,
                                                xFrame.ulDestinationIPAddress,
                                                FreeRTOS_FirstEndPoint(pxNetworkInterface),
                                                ScanFuel)
            IN  IF xIPBroadcast(xFrame.ulDestinationIPAddress) /\ pxEndPoint = NULL
                THEN FreeRTOS_FirstEndPoint(pxNetworkInterface)
                ELSE pxEndPoint
      [] OTHER -> NULL

IPv4Frame(ucSource, ucDestination) ==
    [usFrameType |-> "IPv4",
     ulSourceIPAddress |-> FreeRTOS_inet_addr_quick(ucSource[1], ucSource[2],
                                                    ucSource[3], ucSource[4]),
     ulDestinationIPAddress |-> FreeRTOS_inet_addr_quick(ucDestination[1], ucDestination[2],
                                                         ucDestination[3], ucDestination[4]),
     ulTargetProtocolAddress |-> Zero32,
     xDestinationAddress |-> Zero128]

\* The IPv4 frames received: limited broadcasts from inside and outside the
\* configured subnets, unicasts to configured addresses, directed
\* broadcasts, a multicast and a foreign unicast.
IPv4Frames ==
    { IPv4Frame(<<10, 0, 0, 7>>, <<255, 255, 255, 255>>),
      IPv4Frame(<<192, 168, 1, 7>>, <<255, 255, 255, 255>>),
      IPv4Frame(<<172, 16, 0, 9>>, <<255, 255, 255, 255>>),
      IPv4Frame(<<0, 0, 0, 0>>, <<255, 255, 255, 255>>),
      IPv4Frame(<<192, 168, 1, 7>>, <<10, 0, 0, 5>>),
      IPv4Frame(<<10, 0, 0, 7>>, <<10, 0, 0, 255>>),
      IPv4Frame(<<10, 0, 0, 7>>, <<192, 168, 1, 5>>),
      IPv4Frame(<<192, 168, 1, 7>>, <<192, 168, 1, 255>>),
      IPv4Frame(<<10, 0, 0, 7>>, <<172, 16, 0, 5>>),
      IPv4Frame(<<172, 16, 0, 9>>, <<172, 16, 0, 127>>),
      IPv4Frame(<<10, 0, 0, 7>>, <<8, 8, 8, 8>>),
      IPv4Frame(<<10, 0, 0, 7>>, <<224, 0, 0, 251>>) }

\* A variant that remembers the end-point it found in the interface.
CallMatchingEndpoint_CachesResult(pxNetworkInterface, xFrame) ==
    LET pxEndPoint == FreeRTOS_MatchingEndpoint(pxNetworkInterface, xFrame)
    IN  /\ uxOps < MaxOps
        /\ xLast' = [op |-> "MatchingEndpoint", args |-> <<pxNetworkInterface, xFrame>>,
                     result |-> pxEndPoint]
        /\ uxOps' = MaxOps
        /\ xInterfaces' = IF pxEndPoint \in EndPoints
                          THEN [xInterfaces EXCEPT ![pxNetworkInterface].pxEndPoint =
                                                       pxEndPoint]
                          ELSE xInterfaces
        /\ UNCHANGED <<pxNetworkInterfaces, pxNetworkEndPoints, xEndPoints, xAddCalls,
                       xSockets, xReaders>>

CallMatchingEndpoint(pxNetworkInterface, xFrame) ==
    /\ uxOps < MaxOps
    /\ xLast' = [op |-> "MatchingEndpoint", args |-> <<pxNetworkInterface, xFrame>>,
                 result |-> FreeRTOS_MatchingEndpoint(pxNetworkInterface, xFrame)]
    /\ uxOps' = MaxOps
    /\ UNCHANGED <<registry, xAddCalls, xSockets, xReaders>>

NextMatchIPv4 ==
    \/ Next
    \/ \E i \in CallerInterfaces, f \in IPv4Frames : CallMatchingEndpoint(i, f)

SpecMatchIPv4 == Init /\ [][NextMatchIPv4]_vars

(***************************************************************************)
(* Properties of FreeRTOS_MatchingEndpoint on IPv4 frames.                 *)
(***************************************************************************)
\* The octets of a dotted address a.b.c.d held in a uint32_t in network byte
\* order on the little-endian build: d is the most significant byte.
FirstOctet(x) == x[4]

LastOctet(x) == x[1]

MatchedIPv4 == xLast.op = "MatchingEndpoint" /\ xLast.args[2].usFrameType = "IPv4"

CurrentAddress(e) == xEndPoints[e].ipv4_settings.ulIPAddress

CurrentNetMask(e) == xEndPoints[e].ipv4_settings.ulNetMask

InSubnet(ulAddress, e) ==
    And32(Xor32(ulAddress, CurrentAddress(e)), CurrentNetMask(e)) = Zero32

\* C8: an IPv4 frame whose destination is the current address of exactly one
\* IPv4 end-point E of the receiving interface is matched to E, whatever
\* other end-points are bound to that interface before it.
C8_ExactMatchWins ==
    MatchedIPv4 =>
        LET bound == Range(EndPointList(xLast.args[1]))
            dst == xLast.args[2].ulDestinationIPAddress
        IN  \A e \in bound :
               (/\ ~xEndPoints[e].bIPv6
                /\ CurrentAddress(e) = dst
                /\ \A o \in bound \ {e} :
                       xEndPoints[o].bIPv6 \/ CurrentAddress(o) /= dst)
                   => xLast.result = e

\* C9 as stated: a frame to 255.255.255.255 is matched to the first end-point
\* of the receiving interface, and to none when the interface has none.
C9_BroadcastToFirstEndPoint ==
    (MatchedIPv4 /\ xLast.args[2].ulDestinationIPAddress = AllOnes32) =>
        LET list == EndPointList(xLast.args[1])
        IN  xLast.result = (IF list = <<>> THEN NULL ELSE list[1])

\* The positions, among the end-points of the interface, of the IPv4
\* end-points whose address is the destination or whose subnet holds the
\* source.
BroadcastCandidates(pxInterface, xFrame) ==
    LET list == EndPointList(pxInterface)
    IN  {k \in 1 .. Len(list) :
            /\ ~xEndPoints[list[k]].bIPv6
            /\ \/ CurrentAddress(list[k]) = xFrame.ulDestinationIPAddress
               \/ InSubnet(xFrame.ulSourceIPAddress, list[k])}

\* C9 as amended: a frame to 255.255.255.255 is matched to none when the
\* receiving interface has no end-point; otherwise to the first IPv4
\* end-point of that interface whose address is the destination or whose
\* subnet holds the source address, and when there is no such end-point to
\* the first end-point of the interface.
C9_BroadcastMatch ==
    (MatchedIPv4 /\ xLast.args[2].ulDestinationIPAddress = AllOnes32) =>
        LET list == EndPointList(xLast.args[1])
            cand == BroadcastCandidates(xLast.args[1], xLast.args[2])
        IN  xLast.result =
                (IF list = <<>> THEN NULL
                 ELSE IF cand /= {} THEN list[SetMin(cand)]
                 ELSE list[1])

C9_Witness ==
    /\ MatchedIPv4
    /\ xLast.args[2].ulDestinationIPAddress = AllOnes32
    /\ Len(EndPointList(xLast.args[1])) = 2
    /\ BroadcastCandidates(xLast.args[1], xLast.args[2]) = {2}
    /\ xLast.result = EndPointList(xLast.args[1])[2]
    /\ CurrentAddress(xLast.result) /= Zero32

\* The case of C10: the interface has several end-points, all IPv4 with
\* their current address set, on pairwise disjoint subnets.
DisjointSubnets(pxInterface) ==
    LET list == EndPointList(pxInterface)
    IN  /\ Len(list) >= 2
        /\ \A k \in 1 .. Len(list) :
               ~xEndPoints[list[k]].bIPv6 /\ CurrentAddress(list[k]) /= Zero32
        /\ \A j, k \in 1 .. Len(list) :
               j /= k =>
                   And32(And32(Xor32(CurrentAddress(list[j]), CurrentAddress(list[k])),
                               CurrentNetMask(list[j])),
                         CurrentNetMask(list[k])) /= Zero32

DirectedBroadcast(e) == Or32(CurrentAddress(e), Not32(CurrentNetMask(e)))

IsMulticast(ulAddress) == FirstOctet(ulAddress) \in 224 .. 239

C10_DisjointSubnetsOctetBroadcast ==
    (MatchedIPv4 /\ DisjointSubnets(xLast.args[1])) =>
        LET bound == Range(EndPointList(xLast.args[1]))
            dst == xLast.args[2].ulDestinationIPAddress
            src == xLast.args[2].ulSourceIPAddress
        IN  /\ \A e \in bound : CurrentAddress(e) = dst => xLast.result = e
            /\ \A e \in bound :
                   (/\ DirectedBroadcast(e) = dst
                    /\ LastOctet(dst) = 255
                    /\ InSubnet(src, e)) => xLast.result = e
            /\ (/\ ~IsMulticast(dst)
                /\ LastOctet(dst) /= 255
                /\ \A e \in bound : CurrentAddress(e) /= dst)
                   => xLast.result = NULL

ARPFrame(ucTarget) ==
    [usFrameType |-> "ARP",
     ulSourceIPAddress |-> Zero32,
     ulDestinationIPAddress |-> Zero32,
     ulTargetProtocolAddress |-> FreeRTOS_inet_addr_quick(ucTarget[1], ucTarget[2],
                                                          ucTarget[3], ucTarget[4]),
     xDestinationAddress |-> Zero128]

IPv6Frame(xDestination) ==
    [usFrameType |-> "IPv6",
     ulSourceIPAddress |-> Zero32,
     ulDestinationIPAddress |-> Zero32,
     ulTargetProtocolAddress |-> Zero32,
     xDestinationAddress |-> xDestination]

\* A frame type that is neither ARP, IPv4 nor IPv6.
OtherFrame ==
    [usFrameType |-> "other",
     ulSourceIPAddress |-> Zero32,
     ulDestinationIPAddress |-> Zero32,
     ulTargetProtocolAddress |-> Zero32,
     xDestinationAddress |-> Zero128]

\* ARP requests for a configured and for a foreign address, IPv6 frames to a
\* configured address, to a foreign one and to the LLMNR group, an
\* unsupported frame, and IPv4 frames: a unicast to a configured address, a
\* foreign unicast, a limited broadcast and a multicast.
Frames ==
    { ARPFrame(<<10, 0, 0, 5>>),
      ARPFrame(<<10, 0, 0, 9>>),
      IPv6Frame(Addr6(32, 5)),
      IPv6Frame(Addr6(48, 7)),
      IPv6Frame(ipLLMNR_IP_ADDR_IPv6),
      OtherFrame,
      IPv4Frame(<<192, 168, 1, 7>>, <<10, 0, 0, 5>>),
      IPv4Frame(<<10, 0, 0, 7>>, <<8, 8, 8, 8>>),
      IPv4Frame(<<10, 0, 0, 7>>, <<255, 255, 255, 255>>),
      IPv4Frame(<<10, 0, 0, 7>>, <<224, 0, 0, 251>>) }

(***************************************************************************)
(* The build with ipconfigCOMPATIBLE_WITH_SINGLE: one interface, one       *)
(* end-point.  Its functions carry the names of the general build; here    *)
(* they are prefixed with Single_.                                         *)
(***************************************************************************)
Single_FreeRTOS_MatchingEndpoint(pxNetworkInterface, xFrame) == pxNetworkEndPoints

(***************************************************************************)
(* A registry of exactly one interface with exactly one IPv4 end-point.    *)
(* On such a registry both builds hold the same two heads and the same     *)
(* end-point object, so both sets of functions are evaluated on it.        *)
(***************************************************************************)
SingleConfiguration(pxInterface, pxEndPoint) ==
    /\ pxNetworkInterfaces = pxInterface
    /\ xInterfaces[pxInterface].pxNext = NULL
    /\ xInterfaces[pxInterface].pxEndPoint = pxEndPoint
    /\ pxNetworkEndPoints = pxEndPoint
    /\ xEndPoints[pxEndPoint].pxNext = NULL
    /\ xEndPoints[pxEndPoint].pxNetworkInterface = pxInterface
    /\ ~xEndPoints[pxEndPoint].bIPv6

\* The same frame, received on the one interface, handed to both builds.
CompareMatchingEndpoint(pxNetworkInterface, xFrame) ==
    /\ uxOps < MaxOps
    /\ \E e \in EndPoints : SingleConfiguration(pxNetworkInterface, e)
    /\ xLast' = [op |-> "CompareMatchingEndpoint",
                 args |-> <<pxNetworkInterface, xFrame>>,
                 result |->
                     [multi |-> FreeRTOS_MatchingEndpoint(pxNetworkInterface, xFrame),
                      single |-> Single_FreeRTOS_MatchingEndpoint(pxNetworkInterface,
                                                                  xFrame)]]
    /\ uxOps' = MaxOps
    /\ UNCHANGED <<registry, xAddCalls, xSockets, xReaders>>

NextCompareMatch ==
    \/ Next
    \/ \E i \in Interfaces, f \in Frames : CompareMatchingEndpoint(i, f)

SpecCompareMatch == Init /\ [][NextCompareMatch]_vars

\* C11: on one interface with one IPv4 end-point, the single-interface build
\* matches a frame to an end-point exactly when the general build does.
C11_SameMatch ==
    xLast.op = "CompareMatchingEndpoint" =>
        ((xLast.result.single /= NULL) <=> (xLast.result.multi /= NULL))

(***************************************************************************)
(* FreeRTOS_FindEndPointOnMAC and FreeRTOS_FindGateWay of the general      *)
(* build with IPv6.                                                        *)
(***************************************************************************)
RECURSIVE prvOnMACScan(_, _, _, _)
prvOnMACScan(pxMACAddress, pxInterface, pxEndPoint, fuel) ==
    IF pxEndPoint = NULL \/ fuel = 0 THEN NULL
    ELSE IF /\ (pxInterface = NULL
                    \/ pxInterface = xEndPoints[pxEndPoint].pxNetworkInterface)
            /\ xEndPoints[pxEndPoint].xMACAddress = pxMACAddress
         THEN pxEndPoint
    ELSE prvOnMACScan(pxMACAddress, pxInterface, xEndPoints[pxEndPoint].pxNext, fuel - 1)

FreeRTOS_FindEndPointOnMAC(pxMACAddress, pxInterface) ==
    prvOnMACScan(pxMACAddress, pxInterface, pxNetworkEndPoints, ScanFuel)

ipTYPE_IPv4 == 64

ipTYPE_IPv6 == 96

\* A variant that does not look at the family of the end-point.
prvGateWayMatch_AnyFamily(xIPType, pxEndPoint) ==
    \/ xEndPoints[pxEndPoint].ipv6_settings.xGatewayAddress /= Zero128
    \/ xEndPoints[pxEndPoint].ipv4_settings.ulGatewayAddress /= Zero32

\* The body of the while loop: TRUE when the loop breaks at pxEndPoint.
prvGateWayMatch(xIPType, pxEndPoint) ==
    IF xIPType = ipTYPE_IPv6 /\ xEndPoints[pxEndPoint].bIPv6
    THEN xEndPoints[pxEndPoint].ipv6_settings.xGatewayAddress /= Zero128
    ELSE IF xIPType = ipTYPE_IPv4 /\ ~xEndPoints[pxEndPoint].bIPv6
    THEN xEndPoints[pxEndPoint].ipv4_settings.ulGatewayAddress /= Zero32
    ELSE FALSE

RECURSIVE prvGateWayScan(_, _, _)
prvGateWayScan(xIPType, pxEndPoint, fuel) ==
    IF pxEndPoint = NULL \/ fuel = 0 THEN NULL
    ELSE IF prvGateWayMatch(xIPType, pxEndPoint) THEN pxEndPoint
    ELSE prvGateWayScan(xIPType, xEndPoints[pxEndPoint].pxNext, fuel - 1)

FreeRTOS_FindGateWay(xIPType) == prvGateWayScan(xIPType, pxNetworkEndPoints, ScanFuel)

(***************************************************************************)
(* The look-ups of the single-interface build.  They read the end-point    *)
(* at pxNetworkEndPoints without a test for NULL; where that pointer is    *)
(* NULL the read is undefined: it faults, or it yields some value, and     *)
(* then the result is pxNetworkEndPoints or NULL, which are NULL both.     *)
(* Each operator gives the set of outcomes.                                *)
(***************************************************************************)
Single_FreeRTOS_FindEndPointOnIP_IPv4(ulIPAddress) ==
    IF ulIPAddress = Zero32 THEN {pxNetworkEndPoints}
    ELSE IF pxNetworkEndPoints = NULL THEN {FAULT, NULL}
    ELSE IF xEndPoints[pxNetworkEndPoints].ipv4_settings.ulIPAddress = ulIPAddress
         THEN {pxNetworkEndPoints}
    ELSE {NULL}

Single_FreeRTOS_FindEndPointOnMAC(pxMACAddress, pxInterface) ==
    IF pxNetworkEndPoints = NULL THEN {FAULT, NULL}
    ELSE IF xEndPoints[pxNetworkEndPoints].xMACAddress = pxMACAddress
         THEN {pxNetworkEndPoints}
    ELSE {NULL}

Single_FreeRTOS_InterfaceEndPointOnNetMask(pxInterface, ulIPAddress) ==
    IF pxNetworkEndPoints = NULL THEN {FAULT, NULL}
    ELSE IF And32(Xor32(ulIPAddress,
                        xEndPoints[pxNetworkEndPoints].ipv4_settings.ulIPAddress),
                  xEndPoints[pxNetworkEndPoints].ipv4_settings.ulNetMask) = Zero32
         THEN {pxNetworkEndPoints}
    ELSE {NULL}

Single_FreeRTOS_FindEndPointOnNetMask(ulIPAddress) ==
    Single_FreeRTOS_InterfaceEndPointOnNetMask(NULL, ulIPAddress)

Single_FreeRTOS_FindGateWay(xIPType) ==
    IF pxNetworkEndPoints /= NULL
       /\ xEndPoints[pxNetworkEndPoints].ipv4_settings.ulGatewayAddress /= Zero32
    THEN {pxNetworkEndPoints}
    ELSE {NULL}

Single_FreeRTOS_FirstEndPoint(pxInterface) == {pxNetworkEndPoints}

(***************************************************************************)
(* The look-ups of both builds on a registry of one interface with one     *)
(* IPv4 end-point.                                                         *)
(***************************************************************************)
FindAddresses ==
    { Zero32, FreeRTOS_inet_addr_quick(10, 0, 0, 5), FreeRTOS_inet_addr_quick(10, 0, 0, 7),
      FreeRTOS_inet_addr_quick(192, 168, 1, 5), FreeRTOS_inet_addr_quick(8, 8, 8, 8) }

InterfaceFilters == {NULL} \cup Interfaces

IsSingleConfiguration ==
    \E i \in Interfaces, e \in EndPoints : SingleConfiguration(i, e)

CompareFindEndPointOnIP_IPv4(ulIPAddress) ==
    /\ uxOps < MaxOps
    /\ IsSingleConfiguration
    /\ \E r \in Single_FreeRTOS_FindEndPointOnIP_IPv4(ulIPAddress) :
           xLast' = [op |-> "CompareFindEndPointOnIP_IPv4", args |-> <<ulIPAddress>>,
                     result |-> [multi |-> FreeRTOS_FindEndPointOnIP_IPv4(ulIPAddress),
                                 single |-> r]]
    /\ uxOps' = MaxOps
    /\ UNCHANGED <<registry, xAddCalls, xSockets, xReaders>>

CompareFindEndPointOnMAC(pxMACAddress, pxInterface) ==
    /\ uxOps < MaxOps
    /\ IsSingleConfiguration
    /\ \E r \in Single_FreeRTOS_FindEndPointOnMAC(pxMACAddress, pxInterface) :
           xLast' = [op |-> "CompareFindEndPointOnMAC",
                     args |-> <<pxMACAddress, pxInterface>>,
                     result |-> [multi |-> FreeRTOS_FindEndPointOnMAC(pxMACAddress,
                                                                      pxInterface),
                                 single |-> r]]
    /\ uxOps' = MaxOps
    /\ UNCHANGED <<registry, xAddCalls, xSockets, xReaders>>

CompareInterfaceEndPointOnNetMask(pxInterface, ulIPAddress) ==
    /\ uxOps < MaxOps
    /\ IsSingleConfiguration
    /\ \E r \in Single_FreeRTOS_InterfaceEndPointOnNetMask(pxInterface, ulIPAddress) :
           xLast' = [op |-> "CompareInterfaceEndPointOnNetMask",
                     args |-> <<pxInterface, ulIPAddress>>,
                     result |-> [multi |-> FreeRTOS_InterfaceEndPointOnNetMask(pxInterface,
                                                                               ulIPAddress),
                                 single |-> r]]
    /\ uxOps' = MaxOps
    /\ UNCHANGED <<registry, xAddCalls, xSockets, xReaders>>

CompareFindGateWay(xIPType) ==
    /\ uxOps < MaxOps
    /\ IsSingleConfiguration
    /\ \E r \in Single_FreeRTOS_FindGateWay(xIPType) :
           xLast' = [op |-> "CompareFindGateWay", args |-> <<xIPType>>,
                     result |-> [multi |-> FreeRTOS_FindGateWay(xIPType), single |-> r]]
    /\ uxOps' = MaxOps
    /\ UNCHANGED <<registry, xAddCalls, xSockets, xReaders>>

NextCompareFind ==
    \/ Next
    \/ \E a \in FindAddresses : CompareFindEndPointOnIP_IPv4(a)
    \/ \E m \in {MAC1, MAC2}, i \in InterfaceFilters : CompareFindEndPointOnMAC(m, i)
    \/ \E i \in InterfaceFilters, a \in FindAddresses :
           CompareInterfaceEndPointOnNetMask(i, a)
    \/ \E t \in {ipTYPE_IPv4, ipTYPE_IPv6} : CompareFindGateWay(t)

SpecCompareFind == Init /\ [][NextCompareFind]_vars

CompareFindOps ==
    {"CompareFindEndPointOnIP_IPv4", "CompareFindEndPointOnMAC",
     "CompareInterfaceEndPointOnNetMask", "CompareFindGateWay"}

\* C12: on one interface with one IPv4 end-point, each of the look-ups by
\* IPv4 address, by MAC address (with any interface filter), by netmask (with
\* any interface filter) and by gateway (of either family) finds an
\* end-point in the single-interface build exactly when it does in the
\* general build.
C12_SameFind ==
    xLast.op \in CompareFindOps =>
        ((xLast.result.single /= NULL) <=> (xLast.result.multi /= NULL))

\* The part of C12 that holds of the code: the look-up by IPv4 address, the
\* look-ups by MAC address and by netmask when the filter is none or the
\* registered interface, and the look-up of an IPv4 gateway.
C12_SameFindOnRegistered ==
    (\/ xLast.op = "CompareFindEndPointOnIP_IPv4"
     \/ /\ xLast.op = "CompareFindEndPointOnMAC"
        /\ xLast.args[2] \in {NULL, pxNetworkInterfaces}
     \/ /\ xLast.op = "CompareInterfaceEndPointOnNetMask"
        /\ xLast.args[1] \in {NULL, pxNetworkInterfaces}
     \/ /\ xLast.op = "CompareFindGateWay"
        /\ xLast.args[1] = ipTYPE_IPv4)
        => xLast.result.single = xLast.result.multi

(***************************************************************************)
(* FreeRTOS_FindGateWay called in any registry of the general build.       *)
(***************************************************************************)
CallFindGateWay(xIPType) ==
    /\ uxOps < MaxOps
    /\ xLast' = [op |-> "FindGateWay", args |-> <<xIPType>>,
                 result |-> FreeRTOS_FindGateWay(xIPType)]
    /\ uxOps' = MaxOps
    /\ UNCHANGED <<registry, xAddCalls, xSockets, xReaders>>

NextGateWay ==
    \/ Next
    \/ \E t \in {ipTYPE_IPv4, ipTYPE_IPv6} : CallFindGateWay(t)

SpecGateWay == Init /\ [][NextGateWay]_vars

\* All end-points, in the order of the list.
AllEndPoints == EndPointWalk(xEndPoints, pxNetworkEndPoints, ScanFuel)

\* The positions in the list of the end-points of a family that have a
\* gateway in their current settings.
GateWayCandidates(xIPType) ==
    {k \in 1 .. Len(AllEndPoints) :
        LET ep == xEndPoints[AllEndPoints[k]]
        IN  IF xIPType = ipTYPE_IPv6
            THEN ep.bIPv6 /\ ep.ipv6_settings.xGatewayAddress /= Zero128
            ELSE ~ep.bIPv6 /\ ep.ipv4_settings.ulGatewayAddress /= Zero32}

\* C13: FreeRTOS_FindGateWay returns the first end-point of the list that is
\* of the family asked for and has a non-zero gateway in its current
\* settings, and NULL when no end-point of that family has one, whatever the
\* gateways of the end-points of the other family.
C13_FindGateWay ==
    xLast.op = "FindGateWay" =>
        LET cand == GateWayCandidates(xLast.args[1])
        IN  xLast.result = (IF cand = {} THEN NULL ELSE AllEndPoints[SetMin(cand)])

C13_Witness ==
    /\ xLast.op = "FindGateWay"
    /\ xLast.args[1] = ipTYPE_IPv6
    /\ Len(AllEndPoints) = 2
    /\ ~xEndPoints[AllEndPoints[1]].bIPv6
    /\ xEndPoints[AllEndPoints[1]].ipv4_settings.ulGatewayAddress /= Zero32
    /\ xEndPoints[AllEndPoints[2]].bIPv6
    /\ xLast.result = AllEndPoints[2]

(***************************************************************************)
(* The single-interface build as a state machine of its own.  A failed     *)
(* configASSERT stops the program: the call is the last one of the run,    *)
(* and its result is ASSERT_FAILED.                                        *)
(***************************************************************************)
Single_FreeRTOS_AddNetworkInterface(pxInterface) ==
    /\ uxOps < MaxOps
    /\ xAddCalls' = Append(xAddCalls, pxInterface)
    /\ IF pxNetworkInterfaces = NULL
       THEN /\ pxNetworkInterfaces' = pxInterface
            /\ xLast' = [op |-> "Single_AddNetworkInterface", args |-> <<pxInterface>>,
                         result |-> pxInterface]
            /\ uxOps' = uxOps + 1
       ELSE /\ pxNetworkInterfaces' = pxNetworkInterfaces
            /\ xLast' = [op |-> "Single_AddNetworkInterface", args |-> <<pxInterface>>,
                         result |-> ASSERT_FAILED]
            /\ uxOps' = MaxOps
    /\ UNCHANGED <<pxNetworkEndPoints, xInterfaces, xEndPoints, xSockets, xReaders>>

\* A variant without the configASSERT.
Single_FreeRTOS_AddEndPoint_NoAssert(head, ifs, eps, pxInterface, pxEndPoint) ==
    [ok |-> TRUE,
     head |-> pxEndPoint,
     ifs |-> [ifs EXCEPT ![pxInterface].pxEndPoint = pxEndPoint],
     eps |-> [eps EXCEPT ![pxEndPoint].pxNext = NULL,
                         ![pxEndPoint].pxNetworkInterface = pxInterface]]

Single_FreeRTOS_AddEndPoint(head, ifs, eps, pxInterface, pxEndPoint) ==
    IF head /= NULL
    THEN [ok |-> FALSE, head |-> head, ifs |-> ifs, eps |-> eps]
    ELSE [ok |-> TRUE,
          head |-> pxEndPoint,
          ifs |-> [ifs EXCEPT ![pxInterface].pxEndPoint = pxEndPoint],
          eps |-> [eps EXCEPT ![pxEndPoint].pxNext = NULL,
                              ![pxEndPoint].pxNetworkInterface = pxInterface]]

\* FreeRTOS_FillEndPoint is the same code in both builds; the end-point
\* object is written before FreeRTOS_AddEndPoint is reached.
Single_FreeRTOS_FillEndPoint(pxNetworkInterface, pxEndPoint, cfg) ==
    LET filled == [xEndPoints EXCEPT ![pxEndPoint] =
                       FillEndPointObject(cfg.ip, cfg.mask, cfg.gw, cfg.dns, cfg.mac)]
        r == Single_FreeRTOS_AddEndPoint(pxNetworkEndPoints, xInterfaces, filled,
                                         pxNetworkInterface, pxEndPoint)
    IN  /\ uxOps < MaxOps
        /\ IF pxEndPoint = NULL
           THEN FillNullStorage("Single_FillEndPoint",
                                <<pxNetworkInterface, pxEndPoint, cfg>>)
           ELSE /\ pxNetworkEndPoints' = r.head
                /\ xInterfaces' = r.ifs
                /\ xEndPoints' = r.eps
                /\ xLast' = [op |-> "Single_FillEndPoint",
                             args |-> <<pxNetworkInterface, pxEndPoint, cfg>>,
                             result |-> IF r.ok THEN NULL ELSE ASSERT_FAILED]
                /\ uxOps' = IF r.ok THEN uxOps + 1 ELSE MaxOps
        /\ UNCHANGED <<pxNetworkInterfaces, xAddCalls, xSockets, xReaders>>

\* The network coming up with static addresses: the end-point starts using
\* its default settings.
Single_UseDefaultSettings ==
    /\ uxOps < MaxOps
    /\ pxNetworkEndPoints /= NULL
    /\ xEndPoints' = [xEndPoints EXCEPT ![pxNetworkEndPoints].ipv4_settings =
                          xEndPoints[pxNetworkEndPoints].ipv4_defaults]
    /\ xLast' = [op |-> "Single_UseDefaultSettings", args |-> <<>>, result |-> NULL]
    /\ uxOps' = uxOps + 1
    /\ UNCHANGED <<pxNetworkInterfaces, pxNetworkEndPoints, xInterfaces, xAddCalls,
                   xSockets, xReaders>>

\* A look-up: one of its outcomes is the result, nothing else changes.
Single_LookUp(op, args, outcomes) ==
    /\ uxOps < MaxOps
    /\ \E r \in outcomes : xLast' = [op |-> op, args |-> args, result |-> r]
    /\ uxOps' = MaxOps
    /\ UNCHANGED <<registry, xAddCalls, xSockets, xReaders>>

Single_CallFindEndPointOnIP_IPv4(ulIPAddress) ==
    Single_LookUp("Single_FindEndPointOnIP_IPv4", <<ulIPAddress>>,
                  Single_FreeRTOS_FindEndPointOnIP_IPv4(ulIPAddress))

Single_CallFindEndPointOnMAC(pxMACAddress, pxInterface) ==
    Single_LookUp("Single_FindEndPointOnMAC", <<pxMACAddress, pxInterface>>,
                  Single_FreeRTOS_FindEndPointOnMAC(pxMACAddress, pxInterface))

Single_CallInterfaceEndPointOnNetMask(pxInterface, ulIPAddress) ==
    Single_LookUp("Single_InterfaceEndPointOnNetMask", <<pxInterface, ulIPAddress>>,
                  Single_FreeRTOS_InterfaceEndPointOnNetMask(pxInterface, ulIPAddress))

Single_CallFindEndPointOnNetMask(ulIPAddress) ==
    Single_LookUp("Single_FindEndPointOnNetMask", <<ulIPAddress>>,
                  Single_FreeRTOS_FindEndPointOnNetMask(ulIPAddress))

Single_CallFindGateWay(xIPType) ==
    Single_LookUp("Single_FindGateWay", <<xIPType>>, Single_FreeRTOS_FindGateWay(xIPType))

Single_CallFirstEndPoint(pxInterface) ==
    Single_LookUp("Single_FirstEndPoint", <<pxInterface>>,
                  Single_FreeRTOS_FirstEndPoint(pxInterface))

\* pucEthernetBuffer may be NULL: the function does not look at it.
Single_CallMatchingEndpoint(pxNetworkInterface, pucEthernetBuffer) ==
    Single_LookUp("Single_MatchingEndpoint", <<pxNetworkInterface, pucEthernetBuffer>>,
                  {Single_FreeRTOS_MatchingEndpoint(pxNetworkInterface, pucEthernetBuffer)})

NextSingle ==
    \/ \E i \in CallerInterfaces : Single_FreeRTOS_AddNetworkInterface(i)
    \/ \E i \in CallerInterfaces, e \in CallerEndPoints \cup {NULL}, c \in Configs4 :
           Single_FreeRTOS_FillEndPoint(i, e, c)
    \/ Single_UseDefaultSettings
    \/ \E a \in FindAddresses : Single_CallFindEndPointOnIP_IPv4(a)
    \/ \E m \in {MAC1, MAC2}, i \in InterfaceFilters : Single_CallFindEndPointOnMAC(m, i)
    \/ \E i \in InterfaceFilters, a \in FindAddresses :
           Single_CallInterfaceEndPointOnNetMask(i, a)
    \/ \E a \in FindAddresses : Single_CallFindEndPointOnNetMask(a)
    \/ \E t \in {ipTYPE_IPv4, ipTYPE_IPv6} : Single_CallFindGateWay(t)
    \/ \E i \in InterfaceFilters : Single_CallFirstEndPoint(i)
    \/ \E i \in Interfaces, f \in Frames \cup {NullFrame} : Single_CallMatchingEndpoint(i, f)

SpecSingle == Init /\ [][NextSingle]_vars

\* C14: in the single-interface build the first FreeRTOS_AddNetworkInterface
\* and the first FreeRTOS_FillEndPoint succeed; a second call of either ends
\* in a failed configASSERT, with pxNetworkInterfaces and pxNetworkEndPoints
\* still pointing to the interface and the end-point registered first.
C14_SecondRegistrationAsserts ==
    [][/\ (xLast'.op = "Single_AddNetworkInterface" /\ uxOps' > uxOps) =>
              IF xAddCalls = <<>>
              THEN xLast'.result = xLast'.args[1] /\ pxNetworkInterfaces' = xLast'.args[1]
              ELSE /\ xLast'.result = ASSERT_FAILED
                   /\ pxNetworkInterfaces' = xAddCalls[1]
                   /\ pxNetworkEndPoints' = pxNetworkEndPoints
       /\ (xLast'.op = "Single_FillEndPoint" /\ uxOps' > uxOps /\ xLast'.args[2] /= NULL) =>
              IF \A e \in EndPoints : xEndPoints[e] = ZeroEndPoint
              THEN xLast'.result = NULL /\ pxNetworkEndPoints' = xLast'.args[2]
              ELSE /\ xLast'.result = ASSERT_FAILED
                   /\ pxNetworkEndPoints' = pxNetworkEndPoints
                   /\ pxNetworkEndPoints /= NULL
                   /\ pxNetworkInterfaces' = pxNetworkInterfaces
      ]_vars

C14_Witness ==
    /\ xLast.op = "Single_FillEndPoint"
    /\ xLast.result = ASSERT_FAILED
    /\ xAddCalls = <<1>>
    /\ pxNetworkInterfaces = 1
    /\ pxNetworkEndPoints = 1
    /\ xLast.args[2] = 2

(***************************************************************************)
(* The general build with frames of every kind, the NULL pointer included. *)
(***************************************************************************)
NextMatch ==
    \/ Next
    \/ \E i \in Interfaces, f \in Frames \cup {NullFrame} : CallMatchingEndpoint(i, f)

SpecMatch == Init /\ [][NextMatch]_vars

\* C15: FreeRTOS_MatchingEndpoint leaves the registry as it is: the two
\* heads, the pxNext and pxEndPoint fields of every interface, and the
\* owner, the links, the current and the default settings of every
\* end-point.
C15_MatchingIsReadOnly ==
    [][(xLast'.op = "MatchingEndpoint" /\ uxOps' > uxOps) =>
           /\ pxNetworkInterfaces' = pxNetworkInterfaces
           /\ pxNetworkEndPoints' = pxNetworkEndPoints
           /\ xInterfaces' = xInterfaces
           /\ xEndPoints' = xEndPoints
           /\ InterfaceList' = InterfaceList
           /\ AllEndPoints' = AllEndPoints
      ]_vars

C15_Witness ==
    /\ xLast.op = "MatchingEndpoint"
    /\ xLast.args[2].usFrameType = "IPv4"
    /\ Len(AllEndPoints) = 2
    /\ xLast.result = AllEndPoints[2]
    /\ xInterfaces[xLast.args[1]].pxEndPoint = AllEndPoints[1]

(***************************************************************************)
(* NULL arguments.  In the general build: the registration calls, the two  *)
(* fill functions with NULL for the storage, and a NULL frame.             *)
(***************************************************************************)
NextNullArguments ==
    \/ Next
    \/ \E i \in CallerInterfaces, c \in Configs4 : FreeRTOS_FillEndPoint(i, NULL, c)
    \/ \E i \in CallerInterfaces, c \in Configs6 : FreeRTOS_FillEndPoint_IPv6(i, NULL, c)
    \/ \E i \in Interfaces : CallMatchingEndpoint(i, NullFrame)

SpecNullArguments == Init /\ [][NextNullArguments]_vars

NullArgument ==
    \/ /\ xLast.op \in {"FillEndPoint", "FillEndPoint_IPv6", "Single_FillEndPoint"}
       /\ xLast.args[2] = NULL
    \/ /\ xLast.op \in {"MatchingEndpoint", "Single_MatchingEndpoint"}
       /\ xLast.args[2] = NullFrame

\* C16: FreeRTOS_FillEndPoint with NULL for the storage, FreeRTOS_FillEndPoint_IPv6
\* with NULL for the storage, and FreeRTOS_MatchingEndpoint with a NULL frame,
\* in the general and in the single-interface build, each end in a failed
\* configASSERT.
C16_NullArgumentAsserts == NullArgument => xLast.result = ASSERT_FAILED

\* What the code does guarantee in the case of C16: the assertions of
\* FreeRTOS_FillEndPoint_IPv6 and of the general FreeRTOS_MatchingEndpoint.
C16_NullArgumentAssertsWhereChecked ==
    (NullArgument /\ xLast.op \in {"FillEndPoint_IPv6", "MatchingEndpoint"})
        => xLast.result = ASSERT_FAILED

C16_Witness ==
    /\ xLast.op = "Single_MatchingEndpoint"
    /\ xLast.args[2] = NullFrame
    /\ pxNetworkEndPoints /= NULL
    /\ xLast.result = pxNetworkEndPoints

(***************************************************************************)
(* FreeRTOS_FillEndPoint_IPv6: the end-point it leaves.                    *)
(***************************************************************************)
SuppliedOrZero(pxAddress) == IF pxAddress = NullAddress6 THEN Zero128 ELSE pxAddress

FilledIPv6 ==
    /\ xLast.op = "FillEndPoint_IPv6"
    /\ xLast.args[2] /= NULL

\* What C17 says of every field but the current address.
FillIPv6Fields(ep, cfg) ==
    /\ ep.bIPv6
    /\ ep.ipv6_defaults.xIPAddress = cfg.ip
    /\ \A p \in {ep.ipv6_settings, ep.ipv6_defaults} :
           /\ p.uxPrefixLength = cfg.len
           /\ p.xGatewayAddress = SuppliedOrZero(cfg.gw)
           /\ p.xDNSServerAddresses = SuppliedOrZero(cfg.dns)
           /\ p.xPrefix = SuppliedOrZero(cfg.prefix)

\* C17 as stated: right after FreeRTOS_FillEndPoint_IPv6 with address A the
\* end-point is tagged IPv6, A is the address of the current and of the
\* default settings, the prefix length is stored, and gateway, DNS and
\* prefix are the supplied values, or zero where the pointer was NULL.
C17_FillIPv6AddressInBoth ==
    FilledIPv6 =>
        /\ FillIPv6Fields(xEndPoints[xLast.args[2]], xLast.args[3])
        /\ xEndPoints[xLast.args[2]].ipv6_settings.xIPAddress = xLast.args[3].ip

\* C17 as amended: A is the address of the default settings only; the
\* address of the current settings is zero, as it is for IPv4.
C17_FillIPv6AddressInDefaults ==
    FilledIPv6 =>
        /\ FillIPv6Fields(xEndPoints[xLast.args[2]], xLast.args[3])
        /\ xEndPoints[xLast.args[2]].ipv6_settings.xIPAddress = Zero128

C17_Witness ==
    /\ FilledIPv6
    /\ xLast.args[3].gw /= NullAddress6
    /\ xLast.args[3].ip /= Zero128
    /\ xEndPoints[xLast.args[2]].ipv6_defaults.xIPAddress = xLast.args[3].ip
    /\ xEndPoints[xLast.args[2]].ipv6_settings.xGatewayAddress = xLast.args[3].gw
    /\ xEndPoints[xLast.args[2]].pxNext = NULL
    /\ pxNetworkEndPoints /= xLast.args[2]

(***************************************************************************)
(* FreeRTOS_FindEndPointOnIP_IPv4 called in any registry of the general    *)
(* build.                                                                  *)
(***************************************************************************)
CallFindEndPointOnIP_IPv4(ulIPAddress) ==
    /\ uxOps < MaxOps
    /\ xLast' = [op |-> "FindEndPointOnIP_IPv4", args |-> <<ulIPAddress>>,
                 result |-> FreeRTOS_FindEndPointOnIP_IPv4(ulIPAddress)]
    /\ uxOps' = MaxOps
    /\ UNCHANGED <<registry, xAddCalls, xSockets, xReaders>>

NextOnIP ==
    \/ Next
    \/ \E a \in FindAddresses : CallFindEndPointOnIP_IPv4(a)

SpecOnIP == Init /\ [][NextOnIP]_vars

\* The positions in the list of the IPv4 end-points that answer to an
\* address: all of them for address 0, else those whose current address it is.
OnIPCandidates(ulIPAddress) ==
    {k \in 1 .. Len(AllEndPoints) :
        /\ ~xEndPoints[AllEndPoints[k]].bIPv6
        /\ ulIPAddress /= Zero32 =>
               xEndPoints[AllEndPoints[k]].ipv4_settings.ulIPAddress = ulIPAddress}

\* C18: FreeRTOS_FindEndPointOnIP_IPv4( 0 ) returns the first IPv4 end-point
\* of the list, skipping IPv6 end-points, or NULL when there is none; with
\* an address a /= 0 it returns the first IPv4 end-point whose current
\* address is a, or NULL when there is none, also when a is the default
\* address of an end-point.
C18_FindOnIP ==
    xLast.op = "FindEndPointOnIP_IPv4" =>
        LET cand == OnIPCandidates(xLast.args[1])
        IN  xLast.result = (IF cand = {} THEN NULL ELSE AllEndPoints[SetMin(cand)])

C18_Witness ==
    /\ xLast.op = "FindEndPointOnIP_IPv4"
    /\ xLast.args[1] /= Zero32
    /\ Len(AllEndPoints) = 2
    /\ xEndPoints[AllEndPoints[1]].ipv4_defaults.ulIPAddress = xLast.args[1]
    /\ xEndPoints[AllEndPoints[1]].ipv4_settings.ulIPAddress = Zero32
    /\ xEndPoints[AllEndPoints[2]].ipv4_settings.ulIPAddress /= Zero32
    /\ xLast.result = NULL

(***************************************************************************)
(* The end-point of a socket.                                              *)
(***************************************************************************)
SocketEndpointIn(socks, xSocket) == IF xSocket /= NULL THEN socks[xSocket] ELSE NULL

pxGetSocketEndpoint(xSocket) == SocketEndpointIn(xSockets, xSocket)

\* A variant that stores the end-point in every socket.
SetSocketEndpointResult_AllSockets(socks, xSocket, pxEndPoint) ==
    [s \in Sockets |-> pxEndPoint]

SetSocketEndpointResult(socks, xSocket, pxEndPoint) ==
    [socks EXCEPT ![xSocket] = pxEndPoint]

\* xSocket = NULL is a store through a NULL pointer: it faults, or it lands
\* outside the sockets and the registry.
vSetSocketEndpoint(xSocket, pxEndPoint) ==
    /\ uxOps < MaxOps
    /\ IF xSocket = NULL
       THEN /\ \E r \in {FAULT, NULL} :
                   /\ xLast' = [op |-> "SetSocketEndpoint",
                                args |-> <<xSocket, pxEndPoint>>, result |-> r]
                   /\ uxOps' = IF r = FAULT THEN MaxOps ELSE uxOps + 1
            /\ xSockets' = xSockets
       ELSE /\ xSockets' = SetSocketEndpointResult(xSockets, xSocket, pxEndPoint)
            /\ xLast' = [op |-> "SetSocketEndpoint", args |-> <<xSocket, pxEndPoint>>,
                         result |-> NULL]
            /\ uxOps' = uxOps + 1
    /\ UNCHANGED <<registry, xAddCalls, xReaders>>

CallGetSocketEndpoint(xSocket) ==
    /\ uxOps < MaxOps
    /\ xLast' = [op |-> "GetSocketEndpoint", args |-> <<xSocket>>,
                 result |-> pxGetSocketEndpoint(xSocket)]
    /\ uxOps' = uxOps + 1
    /\ UNCHANGED <<registry, xAddCalls, xSockets, xReaders>>

\* Sockets are used while end-points are registered: the registration
\* calls here are those for one family.
NextSocket ==
    \/ \E i \in CallerInterfaces : FreeRTOS_AddNetworkInterface(i)
    \/ \E i \in CallerInterfaces, e \in CallerEndPoints, c \in Configs4 :
           FreeRTOS_FillEndPoint(i, e, c)
    \/ \E s \in Sockets \cup {NULL}, e \in EndPoints \cup {NULL} : vSetSocketEndpoint(s, e)
    \/ \E s \in Sockets \cup {NULL} : CallGetSocketEndpoint(s)

SpecSocket == Init /\ [][NextSocket]_vars

IsCall(op) == xLast'.op = op /\ uxOps' > uxOps

\* C19: pxGetSocketEndpoint returns what the latest vSetSocketEndpoint on
\* that socket stored, and NULL for a NULL socket; neither call changes the
\* registry or the end-point of another socket.  Step by step: a set on
\* socket s makes the end-point of s the one passed and leaves every other
\* socket and the registry alone; a get returns the end-point of its socket
\* and changes nothing; no other call changes the end-point of any socket.
C19_SocketEndpoint ==
    [][/\ (IsCall("SetSocketEndpoint") /\ xLast'.args[1] /= NULL) =>
              /\ SocketEndpointIn(xSockets', xLast'.args[1]) = xLast'.args[2]
              /\ \A s \in Sockets \ {xLast'.args[1]} :
                     SocketEndpointIn(xSockets', s) = SocketEndpointIn(xSockets, s)
              /\ registry' = registry
       /\ IsCall("GetSocketEndpoint") =>
              /\ xLast'.result = SocketEndpointIn(xSockets, xLast'.args[1])
              /\ xLast'.args[1] = NULL => xLast'.result = NULL
              /\ xSockets' = xSockets
              /\ registry' = registry
       /\ ~IsCall("SetSocketEndpoint") => xSockets' = xSockets
      ]_vars

\* A socket set twice, to different end-points, and then read, with
\* another socket set in between.
C19_Witness ==
    /\ xLast.op = "GetSocketEndpoint"
    /\ xLast.args[1] = 1
    /\ xLast.result = 2
    /\ xSockets[2] = 1
    /\ uxOps = 4

(***************************************************************************)
(* Every look-up of the general build, in any registry, the empty one      *)
(* included.                                                               *)
(***************************************************************************)
CallFindEndPointOnMAC(pxMACAddress, pxInterface) ==
    /\ uxOps < MaxOps
    /\ xLast' = [op |-> "FindEndPointOnMAC", args |-> <<pxMACAddress, pxInterface>>,
                 result |-> FreeRTOS_FindEndPointOnMAC(pxMACAddress, pxInterface)]
    /\ uxOps' = MaxOps
    /\ UNCHANGED <<registry, xAddCalls, xSockets, xReaders>>

CallFirstEndPoint(pxInterface) ==
    /\ uxOps < MaxOps
    /\ xLast' = [op |-> "FirstEndPoint", args |-> <<pxInterface>>,
                 result |-> FreeRTOS_FirstEndPoint(pxInterface)]
    /\ uxOps' = MaxOps
    /\ UNCHANGED <<registry, xAddCalls, xSockets, xReaders>>

NextLookUps ==
    \/ Next
    \/ \E a \in FindAddresses : CallFindEndPointOnIP_IPv4(a)
    \/ \E m \in {MAC1, MAC2}, i \in InterfaceFilters : CallFindEndPointOnMAC(m, i)
    \/ \E i \in InterfaceFilters, a \in FindAddresses : CallInterfaceEndPointOnNetMask(i, a)
    \/ \E a \in FindAddresses : CallFindEndPointOnNetMask(a)
    \/ \E t \in {ipTYPE_IPv4, ipTYPE_IPv6} : CallFindGateWay(t)
    \/ \E i \in InterfaceFilters : CallFirstEndPoint(i)
    \/ \E i \in Interfaces, f \in Frames : CallMatchingEndpoint(i, f)

SpecLookUps == Init /\ [][NextLookUps]_vars

LookUpOps ==
    {"FindEndPointOnIP_IPv4", "FindEndPointOnMAC", "InterfaceEndPointOnNetMask",
     "FindEndPointOnNetMask", "FindGateWay", "FirstEndPoint", "MatchingEndpoint"}

Single_LookUpOps ==
    {"Single_FindEndPointOnIP_IPv4", "Single_FindEndPointOnMAC",
     "Single_InterfaceEndPointOnNetMask", "Single_FindEndPointOnNetMask",
     "Single_FindGateWay", "Single_FirstEndPoint", "Single_MatchingEndpoint"}

\* A look-up was made, with a frame behind the pointer if it takes one.
LookedUp ==
    /\ xLast.op \in LookUpOps \cup Single_LookUpOps
    /\ xLast.op \in {"MatchingEndpoint", "Single_MatchingEndpoint"} =>
           xLast.args[2] /= NullFrame

\* C20: in both builds and in every registry, the empty one included, every
\* look-up returns an end-point of the list or NULL; none faults.
C20_LookUpsComplete ==
    LookedUp => xLast.result \in {NULL} \cup Range(AllEndPoints)

\* A look-up made before anything was registered.
C20_Witness ==
    /\ LookedUp
    /\ xLast.op = "Single_FindEndPointOnMAC"
    /\ pxNetworkEndPoints = NULL
    /\ pxNetworkInterfaces = NULL
    /\ xLast.result = FAULT

(***************************************************************************)
(* IPv4 frames whose destination ends in the byte 0xFF, which is what line *)
(* 752 takes for a broadcast, next to a multicast and a unicast.           *)
(***************************************************************************)
BroadcastFrames ==
    { IPv4Frame(<<10, 0, 0, 7>>, <<255, 255, 255, 255>>),
      IPv4Frame(<<10, 0, 0, 7>>, <<10, 0, 0, 255>>),
      IPv4Frame(<<10, 0, 0, 7>>, <<192, 168, 1, 255>>),
      IPv4Frame(<<10, 0, 0, 7>>, <<224, 0, 0, 255>>),
      IPv4Frame(<<10, 0, 0, 7>>, <<224, 0, 0, 251>>),
      IPv4Frame(<<192, 168, 1, 7>>, <<10, 0, 0, 5>>) }

NextMatchBroadcast ==
    \/ Next
    \/ \E i \in CallerInterfaces, f \in BroadcastFrames : CallMatchingEndpoint(i, f)

SpecMatchBroadcast == Init /\ [][NextMatchBroadcast]_vars

\* The positions, among the end-points of the interface, of the IPv4
\* end-points that a frame with a destination ending in 0xFF is matched to
\* when the subnet rule compares ulCompared: the end-points with the
\* destination as their address, those with ulCompared in their subnet, and
\* every one when the destination is a multicast address.
LowByteCandidates(pxInterface, xFrame, ulCompared) ==
    LET list == EndPointList(pxInterface)
    IN  {k \in 1 .. Len(list) :
            /\ ~xEndPoints[list[k]].bIPv6
            /\ \/ CurrentAddress(list[k]) = xFrame.ulDestinationIPAddress
               \/ InSubnet(ulCompared, list[k])
               \/ IsMulticast(xFrame.ulDestinationIPAddress)}

\* The end-point a frame with a destination ending in 0xFF is matched to when
\* the subnet rule compares ulCompared.
LowByteMatch(pxInterface, xFrame, ulCompared) ==
    LET list == EndPointList(pxInterface)
        cand == LowByteCandidates(pxInterface, xFrame, ulCompared)
    IN  IF list = <<>> THEN NULL
        ELSE IF cand /= {} THEN list[SetMin(cand)]
        ELSE list[1]

MatchedLowByte == MatchedIPv4 /\ LastOctet(xLast.args[2].ulDestinationIPAddress) = 255

\* C21 as stated: for every IPv4 frame with a destination ending in 0xFF the
\* subnet rule compares the source address of the frame: an end-point is
\* accepted by it exactly when ( address XOR source ) AND netmask is 0.
C21_SubnetRuleOnSource ==
    MatchedLowByte =>
        xLast.result = LowByteMatch(xLast.args[1], xLast.args[2],
                                    xLast.args[2].ulSourceIPAddress)

\* C21 as amended: the subnet rule compares the source address of the frame
\* when the destination is 255.255.255.255, and the destination itself for
\* every other destination ending in 0xFF.
C21_SubnetRuleOnSourceOrDestination ==
    MatchedLowByte =>
        xLast.result =
            LowByteMatch(xLast.args[1], xLast.args[2],
                         IF xLast.args[2].ulDestinationIPAddress = AllOnes32
                         THEN xLast.args[2].ulSourceIPAddress
                         ELSE xLast.args[2].ulDestinationIPAddress)

\* A frame from the subnet of the first end-point to the directed broadcast
\* of the subnet of the second is matched to the second.
C21_Witness ==
    /\ MatchedLowByte
    /\ xLast.args[2].ulDestinationIPAddress /= AllOnes32
    /\ Len(EndPointList(xLast.args[1])) = 2
    /\ LET list == EndPointList(xLast.args[1])
       IN  /\ ~xEndPoints[list[1]].bIPv6
           /\ ~xEndPoints[list[2]].bIPv6
           /\ InSubnet(xLast.args[2].ulSourceIPAddress, list[1])
           /\ ~InSubnet(xLast.args[2].ulDestinationIPAddress, list[1])
           /\ InSubnet(xLast.args[2].ulDestinationIPAddress, list[2])
           /\ xLast.result = list[2]

\* The IPv4 end-points of an interface, in the order of the list.
IPv4EndPointList(pxInterface) ==
    SelectSeq(EndPointList(pxInterface), LAMBDA e : ~xEndPoints[e].bIPv6)

MatchedMulticast == MatchedIPv4 /\ IsMulticast(xLast.args[2].ulDestinationIPAddress)

C22_MulticastToFirstIPv4NoLowByte ==
    (MatchedMulticast /\ LastOctet(xLast.args[2].ulDestinationIPAddress) /= 255) =>
        LET list == IPv4EndPointList(xLast.args[1])
        IN  xLast.result = (IF list = <<>> THEN NULL ELSE list[1])

C28_IPv4FrameNoIPv6EndPointNoLowByte ==
    (/\ MatchedIPv4
     /\ LastOctet(xLast.args[2].ulDestinationIPAddress) /= 255
     /\ xLast.result \in EndPoints) => ~xEndPoints[xLast.result].bIPv6

ARPFrames ==
    { ARPFrame(<<0, 0, 0, 0>>),
      ARPFrame(<<10, 0, 0, 5>>),
      ARPFrame(<<192, 168, 1, 5>>),
      ARPFrame(<<10, 0, 0, 9>>) }

NextMatchARP ==
    \/ Next
    \/ \E i \in Interfaces, f \in ARPFrames : CallMatchingEndpoint(i, f)

SpecMatchARP == Init /\ [][NextMatchARP]_vars

MatchedARP == xLast.op = "MatchingEndpoint" /\ xLast.args[2].usFrameType = "ARP"

\* C23: FreeRTOS_MatchingEndpoint on an ARP frame returns what
\* FreeRTOS_FindEndPointOnIP_IPv4 returns for the target protocol address:
\* the first IPv4 end-point of the whole list whose current address it is,
\* the first IPv4 end-point of the whole list for the address 0, NULL when
\* there is none; the same on whichever interface the frame is received.
C23_ARPFindsOnIP ==
    MatchedARP =>
        LET cand == OnIPCandidates(xLast.args[2].ulTargetProtocolAddress)
        IN  /\ xLast.result = (IF cand = {} THEN NULL ELSE AllEndPoints[SetMin(cand)])
            /\ \A i \in Interfaces :
                   FreeRTOS_MatchingEndpoint(i, xLast.args[2]) = xLast.result

\* An ARP frame for the address 0 received on one interface is answered
\* with the first IPv4 end-point of the list, which is behind an IPv6
\* end-point and bound to another interface.
C23_Witness ==
    /\ MatchedARP
    /\ xLast.args[2].ulTargetProtocolAddress = Zero32
    /\ Len(AllEndPoints) = 2
    /\ xEndPoints[AllEndPoints[1]].bIPv6
    /\ xLast.result = AllEndPoints[2]
    /\ xEndPoints[xLast.result].pxNetworkInterface /= xLast.args[1]

C27_MatchOnReceivingInterfaceIP ==
    (/\ xLast.op = "MatchingEndpoint"
     /\ xLast.args[2].usFrameType \in {"IPv4", "IPv6"}
     /\ xLast.result \in EndPoints) =>
        xEndPoints[xLast.result].pxNetworkInterface = xLast.args[1]

SolicitedNode5 ==
    [k \in 1 .. 16 |-> IF k = 1 THEN 255 ELSE IF k = 2 THEN 2 ELSE IF k = 12 THEN 1
                       ELSE IF k = 13 THEN 255 ELSE IF k = 16 THEN 5 ELSE 0]

IPv6Frames ==
    { IPv6Frame(Addr6(32, 5)),
      IPv6Frame(Addr6(32, 9)),
      IPv6Frame(Addr6(254, 1)),
      IPv6Frame(Addr6(48, 7)),
      IPv6Frame(SolicitedNode5),
      IPv6Frame(ipLLMNR_IP_ADDR_IPv6) }

NextMatchIPv6 ==
    \/ Next
    \/ \E i \in CallerInterfaces, f \in IPv6Frames : CallMatchingEndpoint(i, f)

SpecMatchIPv6 == Init /\ [][NextMatchIPv6]_vars

MatchedIPv6 == xLast.op = "MatchingEndpoint" /\ xLast.args[2].usFrameType = "IPv6"

\* The positions in the list of the IPv6 end-points of an interface.
IPv6Positions(pxInterface) ==
    {k \in 1 .. Len(AllEndPoints) :
        /\ xEndPoints[AllEndPoints[k]].bIPv6
        /\ xEndPoints[AllEndPoints[k]].pxNetworkInterface = pxInterface}

\* Those whose current address matches an address over their prefix length.
IPv6Candidates(pxInterface, xAddress) ==
    {k \in IPv6Positions(pxInterface) :
        xCompareIPv6_Address(xEndPoints[AllEndPoints[k]].ipv6_settings.xIPAddress,
                             xAddress,
                             xEndPoints[AllEndPoints[k]].ipv6_settings.uxPrefixLength)}

\* C24: FreeRTOS_MatchingEndpoint on an IPv6 frame returns the first IPv6
\* end-point of the receiving interface whose current address matches the
\* destination over the prefix length of the end-point; when there is none
\* and the destination is the LLMNR address, the first IPv6 end-point of the
\* interface; else NULL.  It returns no IPv4 end-point and no end-point of
\* another interface.
C24_IPv6Match ==
    MatchedIPv6 =>
        LET all == IPv6Positions(xLast.args[1])
            cand == IPv6Candidates(xLast.args[1], xLast.args[2].xDestinationAddress)
        IN  /\ xLast.result =
                   (IF cand /= {} THEN AllEndPoints[SetMin(cand)]
                    ELSE IF /\ xLast.args[2].xDestinationAddress = ipLLMNR_IP_ADDR_IPv6
                            /\ all /= {}
                         THEN AllEndPoints[SetMin(all)]
                    ELSE NULL)
            /\ xLast.result \in EndPoints =>
                   /\ xEndPoints[xLast.result].bIPv6
                   /\ xEndPoints[xLast.result].pxNetworkInterface = xLast.args[1]

\* Two IPv6 end-points of the receiving interface with their addresses in
\* use: the first does not match the destination, the second does over its
\* prefix of 64 bits without being equal to it, and is returned.
C24_Witness ==
    /\ MatchedIPv6
    /\ Len(EndPointList(xLast.args[1])) = 2
    /\ LET list == EndPointList(xLast.args[1])
       IN  /\ xEndPoints[list[1]].bIPv6
           /\ xEndPoints[list[1]].ipv6_settings.xIPAddress /= Zero128
           /\ xEndPoints[list[2]].bIPv6
           /\ xEndPoints[list[2]].ipv6_settings.uxPrefixLength = 64
           /\ xEndPoints[list[2]].ipv6_settings.xIPAddress /= Zero128
           /\ xEndPoints[list[2]].ipv6_settings.xIPAddress /=
                  xLast.args[2].xDestinationAddress
           /\ xLast.result = list[2]

\* The LLMNR fall-back: no end-point matches, and the IPv6 end-point behind
\* an IPv4 end-point of the same interface is returned.
C24_WitnessLLMNR ==
    /\ MatchedIPv6
    /\ xLast.args[2].xDestinationAddress = ipLLMNR_IP_ADDR_IPv6
    /\ IPv6Candidates(xLast.args[1], ipLLMNR_IP_ADDR_IPv6) = {}
    /\ Len(EndPointList(xLast.args[1])) = 2
    /\ ~xEndPoints[EndPointList(xLast.args[1])[1]].bIPv6
    /\ xLast.result = EndPointList(xLast.args[1])[2]

(***************************************************************************)
(* The shape of the two lists.                                             *)
(***************************************************************************)
\* Following pxNext from the head, NULL is reached before any object is
\* met a second time.
InterfaceListEnds ==
    LET walk == InterfaceWalk(xInterfaces, pxNetworkInterfaces, ScanFuel)
    IN  Len(walk) <= NumInterfaces /\ NoDuplicates(walk)

EndPointListEnds ==
    LET walk == EndPointWalk(xEndPoints, pxNetworkEndPoints, ScanFuel)
    IN  Len(walk) <= NumEndPoints /\ NoDuplicates(walk)

\* C26: after any sequence of FreeRTOS_AddNetworkInterface and
\* FreeRTOS_FillEndPoint calls, on fresh or on reused storage, both lists
\* end in NULL without a cycle, so every scan along pxNext terminates.
C26_ListsEnd == InterfaceListEnds /\ EndPointListEnds

\* An interface registered a second time behind another one, and an
\* end-point filled after that.
C26_Witness ==
    /\ xAddCalls = <<1, 2, 1>>
    /\ xLast.op = "FillEndPoint"
    /\ pxNetworkEndPoints /= NULL

(***************************************************************************)
(* The end-point cached in an interface, and the owners of the end-points. *)
(***************************************************************************)
\* C29: in every state reached by FreeRTOS_AddNetworkInterface and
\* FreeRTOS_FillEndPoint calls, pxEndPoint of each interface of the list is
\* what FreeRTOS_FirstEndPoint returns for it: the first end-point of the
\* list bound to the interface, and NULL exactly when there is none.
C29_CachedFirstEndPoint ==
    \A i \in Range(InterfaceList) :
        /\ xInterfaces[i].pxEndPoint = FreeRTOS_FirstEndPoint(i)
        /\ xInterfaces[i].pxEndPoint = NULL <=> EndPointList(i) = <<>>

\* An interface is registered, given an end-point and registered again: its
\* pxEndPoint is NULL while its end-point is in the list.
C29_Witness ==
    /\ xAddCalls = <<1, 1>>
    /\ xLast.op = "AddNetworkInterface"
    /\ xInterfaces[1].pxEndPoint = NULL
    /\ FreeRTOS_FirstEndPoint(1) /= NULL

\* C30: in every reachable state the interface that an end-point of the list
\* is bound to is itself in the list of interfaces, whatever the order of
\* the FreeRTOS_AddNetworkInterface and FreeRTOS_FillEndPoint calls.
C30_OwnerIsRegistered ==
    \A e \in Range(AllEndPoints) :
        xEndPoints[e].pxNetworkInterface \in Range(InterfaceList)

\* An end-point filled for an interface that was never registered.
C30_Witness ==
    /\ xAddCalls = <<>>
    /\ pxNetworkInterfaces = NULL
    /\ pxNetworkEndPoints /= NULL
    /\ xEndPoints[pxNetworkEndPoints].pxNetworkInterface = 1

(***************************************************************************)
(* Look-ups by several tasks at the same time, after the registration      *)
(* phase.  A look-up is a walk along pxNext; a step of a task is one       *)
(* iteration of the loop it is in, which reads one end-point object.  The  *)
(* loop over FreeRTOS_FirstEndPoint / FreeRTOS_NextEndPoint of lines       *)
(* 779-817 passes over the end-points of the other interfaces one at a     *)
(* time inside these two functions.                                        *)
(***************************************************************************)
ReaderFrames ==
    { ARPFrame(<<10, 0, 0, 5>>),
      IPv4Frame(<<10, 0, 0, 7>>, <<255, 255, 255, 255>>),
      IPv6Frame(ipLLMNR_IP_ADDR_IPv6) }

\* The look-ups a task makes.
ReaderCalls ==
    {[op |-> "FindEndPointOnIP_IPv4", args |-> <<FreeRTOS_inet_addr_quick(10, 0, 0, 5)>>],
     [op |-> "FirstEndPoint", args |-> <<1>>]}
    \cup {[op |-> "NextEndPoint", args |-> <<i, pxNetworkEndPoints>>] : i \in {NULL, 1}}
    \cup {[op |-> "MatchingEndpoint", args |-> <<1, f>>] : f \in ReaderFrames}

\* The test that a loop makes on the end-point it is at.
ReaderAccepts(rd, pxEndPoint) ==
    LET ep == xEndPoints[pxEndPoint]
    IN  CASE rd.op = "FindEndPointOnIP_IPv4" ->
                 ~ep.bIPv6 /\ (rd.args[1] = Zero32 \/ ep.ipv4_settings.ulIPAddress = rd.args[1])
          [] rd.op \in {"FirstEndPoint", "NextEndPoint"} ->
                 rd.args[1] = NULL \/ ep.pxNetworkInterface = rd.args[1]
          [] rd.op = "MatchingEndpoint" /\ rd.args[2].usFrameType = "ARP" ->
                 /\ ~ep.bIPv6
                 /\ \/ rd.args[2].ulTargetProtocolAddress = Zero32
                    \/ ep.ipv4_settings.ulIPAddress = rd.args[2].ulTargetProtocolAddress
          [] rd.op = "MatchingEndpoint" /\ rd.args[2].usFrameType = "IPv6" ->
                 IF rd.phase = "loop"
                 THEN /\ ep.bIPv6
                      /\ ep.pxNetworkInterface = rd.args[1]
                      /\ xCompareIPv6_Address(ep.ipv6_settings.xIPAddress,
                                              rd.args[2].xDestinationAddress,
                                              ep.ipv6_settings.uxPrefixLength)
                 ELSE (rd.args[1] = NULL \/ ep.pxNetworkInterface = rd.args[1]) /\ ep.bIPv6
          [] rd.op = "MatchingEndpoint" /\ rd.args[2].usFrameType = "IPv4" ->
                 IF rd.phase = "loop"
                 THEN /\ ep.pxNetworkInterface = rd.args[1]
                      /\ ~ep.bIPv6
                      /\ \/ ep.ipv4_settings.ulIPAddress = rd.args[2].ulDestinationIPAddress
                         \/ /\ xIPBroadcast(rd.args[2].ulDestinationIPAddress)
                            /\ And32(Xor32(ep.ipv4_settings.ulIPAddress,
                                           ulMatchAddress(rd.args[2].ulSourceIPAddress,
                                                          rd.args[2].ulDestinationIPAddress)),
                                     ep.ipv4_settings.ulNetMask) = Zero32
                         \/ xIsIPv4Multicast(rd.args[2].ulDestinationIPAddress)
                 ELSE ep.pxNetworkInterface = rd.args[1]
          [] OTHER -> FALSE

\* After a loop of FreeRTOS_MatchingEndpoint that found nothing: whether the
\* first end-point of the interface is looked for ( lines 726-731, 819-822 ).
ReaderFallsBack(rd) ==
    /\ rd.op = "MatchingEndpoint"
    /\ rd.phase = "loop"
    /\ \/ /\ rd.args[2].usFrameType = "IPv4"
          /\ xIPBroadcast(rd.args[2].ulDestinationIPAddress)
       \/ /\ rd.args[2].usFrameType = "IPv6"
          /\ xCompareIPv6_Address(ipLLMNR_IP_ADDR_IPv6, rd.args[2].xDestinationAddress, 128)

\* A variant in which the tasks share one iterator.
ReadersAfterAdvance_SharedIterator(rs, r, pxNext) ==
    [q \in Readers |-> IF rs[q].pc = "scan" THEN [rs[q] EXCEPT !.pxEndPoint = pxNext]
                       ELSE rs[q]]

\* The tasks after task r has moved to the next end-point: the iterator is
\* a local variable of the function that r is in.
ReadersAfterAdvance(rs, r, pxNext) == [rs EXCEPT ![r].pxEndPoint = pxNext]

AllIdle == \A r \in Readers : xReaders[r].pc = "idle"

\* A task enters a look-up.
ReaderBegin(r, call) ==
    /\ xReaders[r].pc = "idle"
    /\ r > 1 => xReaders[r - 1].pc /= "idle"
    /\ xReaders' =
           [xReaders EXCEPT ![r] =
               IF call.op = "NextEndPoint" /\ call.args[2] = NULL
               THEN [pc |-> "done", op |-> call.op, args |-> call.args, phase |-> "loop",
                     pxEndPoint |-> NULL, result |-> NULL]
               ELSE [pc |-> "scan", op |-> call.op, args |-> call.args, phase |-> "loop",
                     pxEndPoint |-> IF call.op = "NextEndPoint"
                                    THEN xEndPoints[call.args[2]].pxNext
                                    ELSE pxNetworkEndPoints,
                     result |-> NULL]]
    /\ UNCHANGED <<registry, xLast, xAddCalls, xSockets, uxOps>>

\* A task makes one iteration of the loop it is in.
ReaderStep(r) ==
    LET rd == xReaders[r]
    IN  /\ rd.pc = "scan"
        /\ xReaders' =
               IF rd.pxEndPoint = NULL
               THEN IF ReaderFallsBack(rd)
                    THEN [xReaders EXCEPT ![r].phase = "first",
                                          ![r].pxEndPoint = pxNetworkEndPoints]
                    ELSE [xReaders EXCEPT ![r].pc = "done", ![r].result = NULL]
               ELSE IF ReaderAccepts(rd, rd.pxEndPoint)
                    THEN [xReaders EXCEPT ![r].pc = "done", ![r].result = rd.pxEndPoint]
               ELSE ReadersAfterAdvance(xReaders, r, xEndPoints[rd.pxEndPoint].pxNext)
        /\ UNCHANGED <<registry, xLast, xAddCalls, xSockets, uxOps>>

\* The registration phase with the configurations that the look-ups tell
\* apart.
ReaderConfigs4 ==
    {c \in Configs4 : c.ip \in {<<10, 0, 0, 5>>, <<192, 168, 1, 5>>}}

ReaderConfigs6 == {c \in Configs6 : c.len = 64}

NextStartup ==
    \/ \E i \in CallerInterfaces : FreeRTOS_AddNetworkInterface(i)
    \/ \E i \in CallerInterfaces, e \in CallerEndPoints, c \in ReaderConfigs4 :
           FreeRTOS_FillEndPoint(i, e, c)
    \/ \E i \in CallerInterfaces, e \in CallerEndPoints, c \in ReaderConfigs6 :
           FreeRTOS_FillEndPoint_IPv6(i, e, c)
    \/ \E i \in CallerInterfaces : UseDefaultSettings(i)

NextReaders ==
    \/ AllIdle /\ NextStartup
    \/ \E r \in Readers, call \in ReaderCalls : ReaderBegin(r, call)
    \/ \E r \in Readers : ReaderStep(r)

SpecReaders == Init /\ [][NextReaders]_vars

\* What the look-up of a task returns when it is run alone on the registry.
ReaderAlone(rd) ==
    CASE rd.op = "FindEndPointOnIP_IPv4" -> FreeRTOS_FindEndPointOnIP_IPv4(rd.args[1])
      [] rd.op = "FirstEndPoint" -> FreeRTOS_FirstEndPoint(rd.args[1])
      [] rd.op = "NextEndPoint" -> FreeRTOS_NextEndPoint(rd.args[1], rd.args[2])
      [] rd.op = "MatchingEndpoint" -> FreeRTOS_MatchingEndpoint(rd.args[1], rd.args[2])
      [] OTHER -> NULL

\* C25: once the registration calls are over, steps of look-ups by several
\* tasks, interleaved in any way, leave the two lists and every object as
\* they are, and a look-up that ends returns what it returns when run alone
\* on that registry.
C25_ConcurrentLookUps ==
    [][xReaders' /= xReaders =>
           /\ registry' = registry
           /\ InterfaceList' = InterfaceList
           /\ AllEndPoints' = AllEndPoints
           /\ \A r \in Readers :
                  xReaders'[r].pc = "done" =>
                      xReaders'[r].result = ReaderAlone(xReaders'[r])
      ]_vars

\* One task has ended its look-up with the second end-point of the list
\* while the other is at that end-point in a look-up of its own.
C25_Witness ==
    /\ Len(AllEndPoints) = 2
    /\ xReaders[1].pc = "scan"
    /\ xReaders[1].op = "MatchingEndpoint"
    /\ xReaders[1].pxEndPoint = AllEndPoints[2]
    /\ xReaders[2].pc = "done"
    /\ xReaders[2].op = "FindEndPointOnIP_IPv4"
    /\ xReaders[2].result = AllEndPoints[2]

====
